---- MODULE Spec2Model ----
(***************************************************************************)
(* Janeway RQC adapter plugin: submission-data assembly (editor set),      *)
(* delivery classification, the DelayedCall retry ledger and its sweep.    *)
(***************************************************************************)
EXTENDS Integers, Sequences, FiniteSets, TLC

(***************************************************************************)
(* Entities of the platform                                               *)
(***************************************************************************)
Journals == {"j1", "j2"}
Articles == {"a1", "a2"}
\* Article.journal: a1 belongs to j1, a2 to j2.
ArticleJournal == [a \in Articles |-> IF a = "a1" THEN "j1" ELSE "j2"]
\* Editor accounts, identified by their (unique) email address.
Editors == {"e1", "e2"}
None == "None"

(***************************************************************************)
(* Program constants                                                       *)
(***************************************************************************)
MAX_SINGLE_LINE_STRING_LENGTH == 2000
MAX_MULTI_LINE_STRING_LENGTH == 200000
MAX_LIST_LENGTH == 20
\* RQCDelayedCall.objects.create(remaining_tries = 10, ...)
INITIAL_TRIES == 10
\* Minimum age of the last attempt before the sweep retries an item.
RETRY_INTERVAL_HOURS == 24
\* RQCErrorCodes members (transport-level outcomes of the delivery client).
CONNECTION_ERROR == -1
TIMEOUT == -2
REQUEST_ERROR == -3
UNKNOWN_ERROR == -4

(***************************************************************************)
(* Bounds of the model                                                     *)
(***************************************************************************)
\* DelayedCall rows ever created (primary keys 1..MaxDelayedCalls).
MaxDelayedCalls == 2
\* Rows ever created in the specifications where time passes.
MaxSweepCalls == 1
MaxLiveCalls == 1
\* Editor assignments per article.
MaxAssignments == 2
\* Decision drafts per article.
MaxDrafts == 1
\* Editor assignments and decision drafts of the inputs of SpecEditorSet.
MaxInputAssignments == 3
MaxInputDrafts == 2
\* The clock advances in steps of TickHours.
TickHours == 12
\* The calendar advances in steps of TickDays.
TickDays == 120

(***************************************************************************)
(* State                                                                   *)
(***************************************************************************)
VARIABLES
    credentials,        \* RQCJournalAPICredentials: journals that have a row
    editorAssignments,  \* article.editorassignment_set, oldest assignment first
    decisionDrafts,     \* article.decisiondraft_set, in creation (pk) order
    callRecords,        \* RQCCall rows: [article, editor_assignments]
    delayedCalls,       \* RQCDelayedCall rows
    nextId,             \* next primary key of RQCDelayedCall
    remoteUp,           \* TRUE once the remote endpoint accepts every delivery
    sent,               \* history: payloads delivered successfully
    owed,               \* history: articles with a retryable explicit failure
                        \*   not yet followed by a successful delivery
    inflight,           \* requests that assembled a payload and await delivery
    reviewAssignments,  \* ReviewAssignment rows by id
    optingDecisions,    \* RQCReviewerOptingDecision rows
    optingSnapshots,    \* RQCReviewerOptingDecisionForReviewAssignment rows
    journalSalts,       \* RQCJournalSalt rows
    lastOp              \* history: what the last handler did

reviewVars == <<reviewAssignments, optingDecisions, optingSnapshots, journalSalts>>

vars == <<credentials, editorAssignments, decisionDrafts, callRecords,
          delayedCalls, nextId, remoteUp, sent, owed, inflight, reviewVars, lastOp>>

Min(a, b) == IF a < b THEN a ELSE b

Reverse(s) == [i \in 1..Len(s) |-> s[Len(s) + 1 - i]]

\* Python slice s[:n].
Truncate(s, n) == SubSeq(s, 1, Min(Len(s), n))

(***************************************************************************)
(* Delivery client: outcome taxonomy                                       *)
(***************************************************************************)
\* Status codes the remote call can end with.
StatusCodes == {200, 303, 400, 403, 404, 418, 500, 502, 503, 504,
                CONNECTION_ERROR, TIMEOUT, REQUEST_ERROR, UNKNOWN_ERROR}

\* response['success'] of call_mhs_submission.
Success(code) == code \in {200, 303}

\* Mutants: the transport-level codes are forgotten; every failure is retried.
RetryableHttpOnly(code) == code \in {500, 502, 503, 504}
RetryableAnyFailure(code) == ~Success(code)

\* The codes of the case that enqueues a retry in submit_article_for_grading.
Retryable(code) ==
    code \in {CONNECTION_ERROR, TIMEOUT, REQUEST_ERROR, 500, 502, 503, 504}

\* Once the remote endpoint is up for good it accepts every delivery.
RemoteMayAnswer(code) == remoteUp => Success(code)

(***************************************************************************)
(* Payload assembler: editor set                                           *)
(***************************************************************************)
get_editor_info(editor, level) == [email |-> editor, level |-> level]

\* Mutant: the seen-check is dropped.
AddAlways(acc, info, marksLevelOne) ==
    [set  |-> Append(acc.set, info),
     seen |-> acc.seen \cup {<<info.email, info.level>>},
     has1 |-> acc.has1 \/ marksLevelOne]

\* append info unless its (email, level) key was seen; acc = [set, seen, has1]
AddUnseen(acc, info, marksLevelOne) ==
    IF <<info.email, info.level>> \in acc.seen
    THEN acc
    ELSE [set  |-> Append(acc.set, info),
          seen |-> acc.seen \cup {<<info.email, info.level>>},
          has1 |-> acc.has1 \/ marksLevelOne]

\* Loop over article.editorassignment_set.order_by('-assigned').
RECURSIVE AddAssignments(_, _)
AddAssignments(acc, assignments) ==
    IF assignments = <<>> THEN acc
    ELSE LET ea == Head(assignments)
             info == IF ea.editor_type = "editor"
                     THEN get_editor_info(ea.editor, 3)
                     ELSE get_editor_info(ea.editor, 1)
             \* has_level_one_editor is set before the seen-check here
             acc1 == [acc EXCEPT !.has1 = @ \/ (ea.editor_type # "editor")]
         IN AddAssignments(AddUnseen(acc1, info, FALSE), Tail(assignments))

\* Loop over article.decisiondraft_set.all().
RECURSIVE AddDrafts(_, _)
AddDrafts(acc, drafts) ==
    IF drafts = <<>> THEN acc
    ELSE LET draft == Head(drafts)
             acc1 == IF draft.section_editor # None
                     THEN AddUnseen(acc, get_editor_info(draft.section_editor, 1), TRUE)
                     ELSE acc
             acc2 == IF draft.editor # None
                     THEN AddUnseen(acc1, get_editor_info(draft.editor, 3), FALSE)
                     ELSE acc1
         IN AddDrafts(acc2, Tail(drafts))

\* Mutant: no promotion.
PromoteNothing(acc) == acc.set

\* edassgmt_set[0]['level'] = 1 when no level-1 editor was collected.
Promote(acc) ==
    IF ~acc.has1 /\ acc.set # <<>>
    THEN [acc.set EXCEPT ![1].level = 1]
    ELSE acc.set

\* list.sort(key = level): stable, levels are 1..3.
SortByLevel(s) ==
    SelectSeq(s, LAMBDA x : x.level = 1) \o
    SelectSeq(s, LAMBDA x : x.level = 2) \o
    SelectSeq(s, LAMBDA x : x.level = 3)

\* Mutant: the list is cut first and sorted afterwards.
ComputeEditors_cut_first(assignments, drafts) ==
    LET start == [set |-> <<>>, seen |-> {}, has1 |-> FALSE]
        acc   == AddDrafts(AddAssignments(start, Reverse(assignments)), drafts)
    IN SortByLevel(Truncate(Promote(acc), MAX_LIST_LENGTH))

\* The editor set computed from scratch (no RQCCall row for the article).
ComputeEditors(assignments, drafts) ==
    LET start == [set |-> <<>>, seen |-> {}, has1 |-> FALSE]
        acc   == AddDrafts(AddAssignments(start, Reverse(assignments)), drafts)
    IN Truncate(SortByLevel(Promote(acc)), MAX_LIST_LENGTH)

\* RQCCall.objects.get(article = article): DoesNotExist / the row.
RQCCall_exists(calls, article) == \E c \in calls : c.article = article
RQCCall_get(calls, article) == CHOOSE c \in calls : c.article = article

\* Mutant: the stored list is ignored and the set is computed again.
get_editors_info_recomputed(calls, article) ==
    ComputeEditors(editorAssignments[article], decisionDrafts[article])

get_editors_info(calls, article) ==
    IF RQCCall_exists(calls, article)
    THEN RQCCall_get(calls, article).editor_assignments
    ELSE ComputeEditors(editorAssignments[article], decisionDrafts[article])

(***************************************************************************)
(* Payload assembler: strings                                              *)
(***************************************************************************)
\* A string is known by what it is a prefix of and by its length: s[:n] of
\* a string keeps the source and shortens the length.
Str(id, len) == [of |-> <<id>>, len |-> len]
EmptyStr == Str("", 0)
\* Python's None in a string-valued field.
NullStr == [of |-> <<>>, len |-> 0]

\* s[:n]
Cut(s, n) == [s EXCEPT !.len = Min(@, n)]

\* " ".join(answers)
RECURSIVE Join(_)
Join(answers) ==
    IF answers = <<>> THEN EmptyStr
    ELSE IF Len(answers) = 1 THEN Head(answers)
    ELSE LET rest == Join(Tail(answers))
         IN [of  |-> Head(answers).of \o <<" ">> \o rest.of,
             len |-> Head(answers).len + 1 + rest.len]

(***************************************************************************)
(* Payload assembler: review set                                           *)
(***************************************************************************)
OPT_IN == "opt_in"
OPT_OUT == "opt_out"
UNDEFINED == "undefined"

\* The review assignments in date_requested order.
ReviewOrder == <<"ra1", "ra2">>
ReviewAssignmentIds == {ReviewOrder[i] : i \in 1..Len(ReviewOrder)}

Reviewers == {"r1"}
ReviewerAccount ==
    [r1 |-> [email |-> Str("r1@uni", 6), first_name |-> EmptyStr,
             last_name |-> Str("One", 3), orcid |-> Str("0000-0001", 9)]]

\* RQCReviewerOptingDecisionForReviewAssignment.objects
\*     .filter(review_assignment = ra).first()
HasSnapshot(snapshots, ra) == \E x \in snapshots : x.review_assignment = ra
SnapshotOf(snapshots, ra) == CHOOSE x \in snapshots : x.review_assignment = ra
SentToRqc(snapshots, ra) ==
    HasSnapshot(snapshots, ra) /\ SnapshotOf(snapshots, ra).sent_to_rqc

\* Mutant: everybody counts as opted in.
has_opted_in_always(snapshots, ra) == TRUE

\* Mutant: nobody counts as opted in.
has_opted_in_never(snapshots, ra) == FALSE

has_opted_in(snapshots, ra) ==
    HasSnapshot(snapshots, ra) /\ SnapshotOf(snapshots, ra).opting_status = OPT_IN

\* RQCJournalSalt.objects.get_or_create(journal, defaults = {'salt': fresh}).
SaltExists(salts, journal) == \E x \in salts : x.journal = journal
get_or_create_salt(salts, journal, fresh) ==
    IF SaltExists(salts, journal) THEN salts
    ELSE salts \cup {[journal |-> journal, salt |-> fresh]}
SaltOf(salts, journal) == (CHOOSE x \in salts : x.journal = journal).salt

\* utils.create_pseudo_address(email, salt): an address at example.edu
\* derived from the email and the journal's salt.
create_pseudo_address(email, salt) ==
    [of |-> <<"pseudo">> \o email.of \o <<salt, "@example.edu">>, len |-> 44]

\* salts is the table after the get_or_create of the else-branch.
get_reviewer_info(reviewer, reviewer_has_opted_in, journal, salts) ==
    LET account == ReviewerAccount[reviewer] IN
    IF reviewer_has_opted_in
    THEN [email     |-> Cut(account.email, MAX_SINGLE_LINE_STRING_LENGTH),
          firstname |-> IF account.first_name.len > 0
                        THEN Cut(account.first_name, MAX_SINGLE_LINE_STRING_LENGTH)
                        ELSE EmptyStr,
          lastname  |-> IF account.last_name.len > 0
                        THEN Cut(account.last_name, MAX_SINGLE_LINE_STRING_LENGTH)
                        ELSE EmptyStr,
          orcid_id  |-> IF account.orcid.len > 0
                        THEN Cut(account.orcid, MAX_SINGLE_LINE_STRING_LENGTH)
                        ELSE NullStr]
    ELSE [email     |-> create_pseudo_address(account.email, SaltOf(salts, journal)),
          firstname |-> EmptyStr,
          lastname  |-> EmptyStr,
          orcid_id  |-> NullStr]

\* Two anonymizations run in separate workers: the steps of
\* RQCJournalSalt.objects.get_or_create, as far as the database sees them.
\* A journal has one salt row: an INSERT for a journal that has a row fails
\* with an IntegrityError.
salt_conflicts(rows, journal) == \E x \in rows : x.journal = journal

\* Mutant: the worker keeps the salt it generated whatever the table holds.
salt_used_generated(rows, journal, fresh) == fresh

\* The salt get_or_create returns after its INSERT was tried: the created
\* row's, or on a conflict the row read back.
salt_used(rows, journal, fresh) ==
    IF salt_conflicts(rows, journal) THEN SaltOf(rows, journal) ELSE fresh

\* The get of get_or_create for the non-opted reviewer of a journal; fresh
\* is the value of generate_random_salt(), evaluated before the call.
salt_get(proc, reviewer, journal, fresh) ==
    /\ \A t \in inflight : t.proc # proc
    /\ inflight' =
          IF SaltExists(journalSalts, journal) THEN inflight
          ELSE inflight \cup {[proc |-> proc, reviewer |-> reviewer,
                               journal |-> journal, fresh |-> fresh]}
    /\ UNCHANGED <<credentials, editorAssignments, decisionDrafts, callRecords,
                   delayedCalls, nextId, remoteUp, reviewVars>>

\* No row was found: the create of get_or_create.
salt_create(t) ==
    /\ t \in inflight
    /\ journalSalts' =
          IF salt_conflicts(journalSalts, t.journal) THEN journalSalts
          ELSE journalSalts \cup {[journal |-> t.journal, salt |-> t.fresh]}
    /\ inflight' = inflight \ {t}
    /\ UNCHANGED <<credentials, editorAssignments, decisionDrafts, callRecords,
                   delayedCalls, nextId, remoteUp, reviewAssignments,
                   optingDecisions, optingSnapshots>>

\* The fields of the ReviewAssignment rows that never change here: reviewer
\* r1 is invited twice for article a1 (two rounds); answers are the
\* review_form_answers().
ReviewAssignmentOf ==
    [ra1 |-> [article |-> "a1", reviewer |-> "r1", access_code |-> "code1",
              date_requested |-> 1,
              answers |-> <<Str("answer-1", 150000), Str("answer-2", 99999)>>],
     ra2 |-> [article |-> "a1", reviewer |-> "r1", access_code |-> "code2",
              date_requested |-> 2,
              answers |-> <<Str("answer-3", 1500)>>]]

\* The fields that change. date_accepted is None, or the year it falls in
\* relative to utc_now(): "this_year" or "last_year".
InitialReviewAssignments ==
    [ra \in ReviewAssignmentIds |->
        [date_accepted |-> None, date_declined |-> FALSE, is_complete |-> FALSE,
         review_round |-> TRUE]]

\* The queryset of get_reviews_info, in date_requested order.
\* Mutant: the review round is not looked at.
ReviewSelected_any_round(assignments, snapshots, article, ra) ==
    /\ ReviewAssignmentOf[ra].article = article
    /\ \/ assignments[ra].date_accepted # None
       \/ assignments[ra].date_declined /\ SentToRqc(snapshots, ra)

ReviewSelected(assignments, snapshots, article, ra) ==
    /\ ReviewAssignmentOf[ra].article = article
    /\ SentToRqc(snapshots, ra) \/ assignments[ra].review_round
    /\ \/ assignments[ra].date_accepted # None
       \/ assignments[ra].date_declined /\ SentToRqc(snapshots, ra)

ReviewSelection(assignments, snapshots, article) ==
    SelectSeq(ReviewOrder,
              LAMBDA ra : ReviewSelected(assignments, snapshots, article, ra))

\* review_text[:MAX_SINGLE_LINE_STRING_LENGTH]
review_text_cut(review_text) == Cut(review_text, MAX_SINGLE_LINE_STRING_LENGTH)

\* Does the loop reach a reviewer who has not opted in (and so the salt)?
NeedsSalt(assignments, snapshots, article) ==
    LET sel == ReviewSelection(assignments, snapshots, article)
    IN \E i \in 1..Len(sel) : ~has_opted_in(snapshots, sel[i])

salts_after_reviews(assignments, snapshots, salts, article, journal, fresh) ==
    IF NeedsSalt(assignments, snapshots, article)
    THEN get_or_create_salt(salts, journal, fresh)
    ELSE salts

review_data(assignments, snapshots, salts, journal, ra, review_num) ==
    LET review_text == Join(ReviewAssignmentOf[ra].answers)
        reviewer_has_opted_in == has_opted_in(snapshots, ra)
    IN [visible_id |-> ToString(review_num),
        invited    |-> ReviewAssignmentOf[ra].date_requested,
        text       |-> IF reviewer_has_opted_in
                       THEN review_text_cut(review_text)
                       ELSE EmptyStr,
        is_html    |-> TRUE,
        reviewer   |-> get_reviewer_info(ReviewAssignmentOf[ra].reviewer,
                                         reviewer_has_opted_in, journal, salts)]

get_reviews_info(assignments, snapshots, salts, article, journal, fresh) ==
    LET sel == ReviewSelection(assignments, snapshots, article)
        after == salts_after_reviews(assignments, snapshots, salts, article,
                                     journal, fresh)
    IN Truncate([i \in 1..Len(sel) |->
                    review_data(assignments, snapshots, after, journal, sel[i], i)],
                MAX_LIST_LENGTH)

(***************************************************************************)
(* Payload assembler: the document                                         *)
(***************************************************************************)
\* request.user: None, an AnonymousUser (no email attribute) or an account.
NoUser == [kind |-> "none", email |-> NullStr]
AnonymousUser == [kind |-> "anonymous", email |-> NullStr]
Account(email) == [kind |-> "account", email |-> email]
EditorUser == Account(Str("editor@journal", 14))

\* Mutant: the redirect target is passed on whatever the interactive user is.
mhs_submissionpage_always(interactive_user, mhs_submissionpage) == mhs_submissionpage

mhs_submissionpage_field(interactive_user, mhs_submissionpage) ==
    IF interactive_user.len > 0 THEN mhs_submissionpage ELSE EmptyStr

\* is_interactive and user and hasattr(user, 'email') and user.email
interactive_user_field(is_interactive, user) ==
    IF is_interactive /\ user.kind = "account" /\ user.email.len > 0
    THEN user.email
    ELSE EmptyStr

\* calls, snapshots and salts are the tables as the call finds them; fresh is
\* the value generate_random_salt() would return.
\* page is the parameter mhs_submissionpage.
fetch_post_data(calls, snapshots, salts, article, journal, page, is_interactive, user, fresh) ==
    LET interactive_user == interactive_user_field(is_interactive, user) IN
    [interactive_user   |-> interactive_user,
     mhs_submissionpage |-> mhs_submissionpage_field(interactive_user, page),
     edassgmt_set       |-> get_editors_info(calls, article),
     review_set         |-> get_reviews_info(reviewAssignments, snapshots, salts,
                                             article, journal, fresh)]

\* The salt table after fetch_post_data.
salts_after_fetch(snapshots, salts, article, journal, fresh) ==
    salts_after_reviews(reviewAssignments, snapshots, salts, article, journal, fresh)

(***************************************************************************)
(* Delivery client: call_mhs_submission                                    *)
(***************************************************************************)
\* Mutant: the row is made whatever the remote endpoint answered.
create_call_record_on_any_answer(calls, article, post_data, code) ==
    IF ~RQCCall_exists(calls, article)
    THEN calls \cup {[article |-> article,
                      editor_assignments |-> post_data.edassgmt_set]}
    ELSE calls

\* Side effect of a successful POST: RQCCall.objects.get_or_create(article,
\* defaults = {'editor_assignments': post_data['edassgmt_set']}).
create_call_record(calls, article, post_data, code) ==
    IF Success(code) /\ ~RQCCall_exists(calls, article)
    THEN calls \cup {[article |-> article,
                      editor_assignments |-> post_data.edassgmt_set]}
    ELSE calls

\* ... and RQCReviewerOptingDecisionForReviewAssignment.objects.filter(
\*     review_assignment__article = article,
\*     review_assignment__date_declined__isnull = True).update(sent_to_rqc = True).
mark_sent(snapshots, article, code) ==
    IF Success(code)
    THEN {IF /\ ReviewAssignmentOf[x.review_assignment].article = article
             /\ ~reviewAssignments[x.review_assignment].date_declined
          THEN [x EXCEPT !.sent_to_rqc = TRUE]
          ELSE x : x \in snapshots}
    ELSE snapshots

(***************************************************************************)
(* Retry ledger                                                            *)
(***************************************************************************)
\* RQCDelayedCall.objects.create(remaining_tries = 10, article = article,
\*     failure_reason = str(code), last_attempt_at = utc_now()).
\* since_last_attempt is utc_now() - last_attempt_at in hours, saturating at
\* RETRY_INTERVAL_HOURS (the only value it is ever compared with).
\* Mutant: a new row starts with one try more.
new_delayed_call_eleven_tries(id, article, code) ==
    [id |-> id, article |-> article, failure_reason |-> ToString(code),
     remaining_tries |-> INITIAL_TRIES + 1, since_last_attempt |-> 0]

new_delayed_call(id, article, code) ==
    [id |-> id, article |-> article, remaining_tries |-> INITIAL_TRIES,
     failure_reason |-> ToString(code), since_last_attempt |-> 0]

HasCredentials(journal) == \E c \in credentials : c.journal = journal

(***************************************************************************)
(* views.submit_article_for_grading (explicit submission)                  *)
(***************************************************************************)
\* The request reaches the delivery: the article is one of request.journal
\* (get_object_or_404) and the journal has credentials.
submit_delivers(journal, article) ==
    ArticleJournal[article] = journal /\ HasCredentials(journal)

\* Mutant: the new row replaces the article's rows.
enqueue_retry_replacing(calls, id, article, code) ==
    IF ~Success(code) /\ Retryable(code)
    THEN {d \in calls : d.article # article} \cup {new_delayed_call(id, article, code)}
    ELSE calls

\* The match statement on response['http_status_code'] of a failed call.
enqueue_retry(calls, id, article, code) ==
    IF ~Success(code) /\ Retryable(code)
    THEN calls \cup {new_delayed_call(id, article, code)}
    ELSE calls

\* referrer if referrer is not None else
\*     request.build_absolute_uri(reverse('review_in_review', args = [article_id]))
mhs_submission_page(request, article) ==
    IF request.referer # NullStr THEN request.referer
    ELSE Str("review_in_review/" \o article, 20)

\* request = [journal, user, referer]; the payload of the request.
submit_post_data(request, article, fresh) ==
    fetch_post_data(callRecords, optingSnapshots, journalSalts, article,
                    ArticleJournal[article], mhs_submission_page(request, article),
                    TRUE, request.user, fresh)

submit_article_for_grading(request, article, code, fresh) ==
    /\ RemoteMayAnswer(code)
    /\ IF submit_delivers(request.journal, article)
       THEN LET post_data == submit_post_data(request, article, fresh) IN
            /\ journalSalts' = salts_after_fetch(optingSnapshots, journalSalts, article,
                                                 ArticleJournal[article], fresh)
            /\ callRecords' = create_call_record(callRecords, article, post_data, code)
            /\ optingSnapshots' = mark_sent(optingSnapshots, article, code)
            /\ delayedCalls' = enqueue_retry(delayedCalls, nextId, article, code)
            /\ nextId' = IF delayedCalls' = delayedCalls THEN nextId ELSE nextId + 1
       ELSE UNCHANGED <<callRecords, delayedCalls, nextId, optingSnapshots,
                        journalSalts>>
    /\ UNCHANGED <<credentials, editorAssignments, decisionDrafts, remoteUp, inflight,
                   reviewAssignments, optingDecisions>>

\* Two requests run in separate workers: the steps of one request, as far as
\* the database sees them. First fetch_post_data reads the RQCCall row ...
submit_assemble(proc, request, article, fresh) ==
    /\ \A r \in inflight : r.proc # proc
    /\ submit_delivers(request.journal, article)
    /\ inflight' = inflight \cup
          {[proc |-> proc, article |-> article,
            post_data |-> submit_post_data(request, article, fresh)]}
    /\ journalSalts' = salts_after_fetch(optingSnapshots, journalSalts, article,
                                         ArticleJournal[article], fresh)
    /\ UNCHANGED <<credentials, editorAssignments, decisionDrafts, callRecords,
                   delayedCalls, nextId, remoteUp, reviewAssignments,
                   optingDecisions, optingSnapshots>>

\* ... then call_mhs_submission delivers the payload and the outcome is handled.
submit_deliver(r, code) ==
    /\ r \in inflight
    /\ RemoteMayAnswer(code)
    /\ callRecords' = create_call_record(callRecords, r.article, r.post_data, code)
    /\ delayedCalls' = enqueue_retry(delayedCalls, nextId, r.article, code)
    /\ nextId' = IF delayedCalls' = delayedCalls THEN nextId ELSE nextId + 1
    /\ optingSnapshots' = mark_sent(optingSnapshots, r.article, code)
    /\ inflight' = inflight \ {r}
    /\ UNCHANGED <<credentials, editorAssignments, decisionDrafts, remoteUp,
                   reviewAssignments, optingDecisions, journalSalts>>

(***************************************************************************)
(* events.implicit_call_mhs_submission (editorial-workflow event)          *)
(***************************************************************************)
implicit_delivers(article) == HasCredentials(ArticleJournal[article])

\* fetch_post_data(article, journal) with the defaults of the other
\* parameters: mhs_submissionpage = '', is_interactive = False, user = None.
implicit_post_data(calls, snapshots, salts, article, fresh) ==
    fetch_post_data(calls, snapshots, salts, article, ArticleJournal[article],
                    EmptyStr, FALSE, NoUser, fresh)

implicit_call_mhs_submission(article, code, fresh) ==
    /\ RemoteMayAnswer(code)
    /\ IF implicit_delivers(article)
       THEN LET post_data == implicit_post_data(callRecords, optingSnapshots,
                                                journalSalts, article, fresh) IN
            /\ journalSalts' = salts_after_fetch(optingSnapshots, journalSalts, article,
                                                 ArticleJournal[article], fresh)
            /\ callRecords' = create_call_record(callRecords, article, post_data, code)
            /\ optingSnapshots' = mark_sent(optingSnapshots, article, code)
            /\ delayedCalls' = enqueue_retry(delayedCalls, nextId, article, code)
            /\ nextId' = IF delayedCalls' = delayedCalls THEN nextId ELSE nextId + 1
       ELSE UNCHANGED <<callRecords, delayedCalls, nextId, optingSnapshots,
                        journalSalts>>
    /\ UNCHANGED <<credentials, editorAssignments, decisionDrafts, remoteUp, inflight,
                   reviewAssignments, optingDecisions>>

(***************************************************************************)
(* Retry sweep: management command rqc_make_delayed_calls                  *)
(***************************************************************************)
\* Mutant: no back-off.
DueAlways(d) == TRUE

\* Mutant: no item ever becomes due.
DueNever(d) == FALSE

\* Back-off: the last attempt is at least 24 hours old.
Due(d) == d.since_last_attempt >= RETRY_INTERVAL_HOURS

\* Mutant: exhaustion is never detected.
ExhaustedNever(d) == FALSE

\* Final exhaustion: no tries left.
Exhausted(d) == d.remaining_tries = 0

\* The items of a sweep that get a delivery attempt.
Attempted(calls) == {d \in calls : Due(d) /\ ~Exhausted(d)}

\* Mutant: the counter is not decremented.
on_failure_keeps_tries(d) == [d EXCEPT !.since_last_attempt = 0]

\* A failed redelivery: one try less, last_attempt_at = utc_now().
on_failure(d) ==
    [d EXCEPT !.remaining_tries = @ - 1, !.since_last_attempt = 0]

\* Mutant: the row is kept.
on_success_keeps_row(calls, d) == calls

\* A successful redelivery: delayed_call.delete().
on_success(calls, d) == calls \ {d}

\* One item of the sweep; st = [dc, cr, log, dropped]: the rows, and for the
\* history the deliveries made and the ids deleted without a delivery.
process_delayed_call(st, d, resp, fresh) ==
    IF ~Due(d) THEN st
    ELSE IF Exhausted(d)
    THEN [st EXCEPT !.dc = @ \ {d}, !.dropped = @ \cup {d.id}]
    ELSE LET post_data == implicit_post_data(st.cr, st.snaps, st.salts, d.article, fresh)
             salts == salts_after_fetch(st.snaps, st.salts, d.article,
                                        ArticleJournal[d.article], fresh)
             code == resp[d.id]
             entry == [id |-> d.id, article |-> d.article, code |-> code,
                       edassgmt_set |-> post_data.edassgmt_set,
                       remaining_tries |-> d.remaining_tries]
         IN IF Success(code)
            THEN [st EXCEPT !.dc = on_success(@, d),
                            !.cr = create_call_record(@, d.article, post_data, code),
                            !.snaps = mark_sent(@, d.article, code),
                            !.salts = salts,
                            !.log = @ \cup {entry}]
            ELSE [st EXCEPT !.dc = (@ \ {d}) \cup {on_failure(d)},
                            !.salts = salts,
                            !.log = @ \cup {entry}]

\* for delayed_call in RQCDelayedCall.objects.all(): in primary-key order.
RECURSIVE sweep_from(_, _, _, _)
sweep_from(st, todo, resp, fresh) ==
    IF todo = {} THEN st
    ELSE LET d == CHOOSE x \in todo : \A y \in todo : x.id <= y.id
         IN sweep_from(process_delayed_call(st, d, resp, fresh), todo \ {d}, resp, fresh)

sweep_result(resp, fresh) ==
    sweep_from([dc |-> delayedCalls, cr |-> callRecords, snaps |-> optingSnapshots,
                salts |-> journalSalts, log |-> {}, dropped |-> {}],
               delayedCalls, resp, fresh)

rqc_make_delayed_calls(resp, fresh) ==
    /\ \A i \in DOMAIN resp : RemoteMayAnswer(resp[i])
    /\ LET st == sweep_result(resp, fresh) IN
          /\ delayedCalls' = st.dc
          /\ callRecords' = st.cr
          /\ optingSnapshots' = st.snaps
          /\ journalSalts' = st.salts
    /\ UNCHANGED <<credentials, editorAssignments, decisionDrafts, nextId,
                   remoteUp, inflight, reviewAssignments, optingDecisions>>

\* Outcomes of a redelivery the model distinguishes.
SweepCodes == {200, 404, 500}
SweepResponses == [{d.id : d \in Attempted(delayedCalls)} -> SweepCodes]

(***************************************************************************)
(* Environment: time, the remote endpoint, the platform                    *)
(***************************************************************************)
\* TickHours pass.
Tick ==
    /\ delayedCalls' =
         {[d EXCEPT !.since_last_attempt = Min(@ + TickHours, RETRY_INTERVAL_HOURS)]
            : d \in delayedCalls}
    /\ UNCHANGED <<credentials, editorAssignments, decisionDrafts, callRecords,
                   nextId, remoteUp, inflight, reviewVars>>

\* The remote endpoint recovers for good.
RemoteRecovers ==
    /\ ~remoteUp
    /\ remoteUp' = TRUE
    /\ UNCHANGED <<credentials, editorAssignments, decisionDrafts, callRecords,
                   delayedCalls, nextId, inflight, reviewVars>>

\* helpers.create_editor_assignment(article, editor, assignment_type).
create_editor_assignment(article, editor, editor_type) ==
    /\ Len(editorAssignments[article]) < MaxAssignments
    /\ \A i \in 1..Len(editorAssignments[article]) :
          editorAssignments[article][i].editor # editor
    /\ editorAssignments' = [editorAssignments EXCEPT ![article] =
          Append(@, [editor |-> editor, editor_type |-> editor_type])]
    /\ UNCHANGED <<credentials, decisionDrafts, callRecords, delayedCalls,
                   nextId, remoteUp, inflight, reviewVars>>

RemoveAt(s, i) == SubSeq(s, 1, i - 1) \o SubSeq(s, i + 1, Len(s))

\* An editor assignment is removed on the platform.
delete_editor_assignment(article, i) ==
    /\ i \in 1..Len(editorAssignments[article])
    /\ editorAssignments' = [editorAssignments EXCEPT ![article] = RemoveAt(@, i)]
    /\ UNCHANGED <<credentials, decisionDrafts, callRecords, delayedCalls,
                   nextId, remoteUp, inflight, reviewVars>>

\* DecisionDraft.objects.create(editor, article, section_editor, ...).
create_decision_draft(article, section_editor, editor) ==
    /\ Len(decisionDrafts[article]) < MaxDrafts
    /\ decisionDrafts' = [decisionDrafts EXCEPT ![article] =
          Append(@, [section_editor |-> section_editor, editor |-> editor])]
    /\ UNCHANGED <<credentials, editorAssignments, callRecords, delayedCalls,
                   nextId, remoteUp, inflight, reviewVars>>

\* A decision draft is deleted on the platform.
delete_decision_draft(article, i) ==
    /\ i \in 1..Len(decisionDrafts[article])
    /\ decisionDrafts' = [decisionDrafts EXCEPT ![article] = RemoveAt(@, i)]
    /\ UNCHANGED <<credentials, editorAssignments, callRecords, delayedCalls,
                   nextId, remoteUp, inflight, reviewVars>>

(***************************************************************************)
(* views.handle_journal_settings_update                                    *)
(***************************************************************************)
\* RQCJournalAPICredentials.objects.update_or_create(journal = journal,
\*     defaults = {'rqc_journal_id': ..., 'api_key': ...})
update_or_create_credentials(rows, journal, journal_id, api_key) ==
    {c \in rows : c.journal # journal} \cup
    {[journal |-> journal, rqc_journal_id |-> journal_id, api_key |-> api_key]}

\* The text of a form field is its sequence of characters; a field left out
\* of the POST data is the empty text.
DigitValue ==
    [c \in {"0", "1", "2", "3", "4", "5", "6", "7", "8", "9"} |->
        CASE c = "0" -> 0 [] c = "1" -> 1 [] c = "2" -> 2 [] c = "3" -> 3
          [] c = "4" -> 4 [] c = "5" -> 5 [] c = "6" -> 6 [] c = "7" -> 7
          [] c = "8" -> 8 [] c = "9" -> 9]
Digits == DOMAIN DigitValue
Letters == {"a", "b", "c", "e", "k", "s", "t", "y"}

IsNumber(text) == Len(text) > 0 /\ \A i \in 1..Len(text) : text[i] \in Digits
IsAlphanumeric(text) ==
    Len(text) > 0 /\ \A i \in 1..Len(text) : text[i] \in Digits \cup Letters

\* int(text) of a text of digits.
RECURSIVE ToInt(_)
ToInt(text) ==
    IF text = <<>> THEN 0
    ELSE 10 * ToInt(SubSeq(text, 1, Len(text) - 1)) + DigitValue[text[Len(text)]]

\* request = [method, user, journal, journal_id_field, journal_api_key_field,
\*            check_success, save_ok]: check_success is the answer of the
\* remote credential check if it is asked, save_ok is FALSE when the
\* database raises during the save.
\* The fields of RqcSettingsForm are clean: both present, the identifier a
\* number, the key alphanumeric.
fields_valid(request) ==
    /\ IsNumber(request.journal_id_field)
    /\ IsAlphanumeric(request.journal_api_key_field)

cleaned_data(request) ==
    [journal_id_field |-> ToInt(request.journal_id_field),
     journal_api_key_field |-> request.journal_api_key_field]

\* @editor_user_required: only an editor of the journal reaches the view.
settings_authorized(request) == request.user = "editor"

\* Mutant: the remote check is asked whatever the fields look like.
apikeycheck_calls_always(request) ==
    IF settings_authorized(request) /\ request.method = "POST"
    THEN <<[journal_id |-> 0, api_key |-> request.journal_api_key_field]>>
    ELSE <<>>

\* The calls the form's validation makes to call_mhs_apikeycheck: one, with
\* the cleaned pair, when the fields are clean.
apikeycheck_calls(request) ==
    IF settings_authorized(request) /\ request.method = "POST" /\ fields_valid(request)
    THEN <<[journal_id |-> cleaned_data(request).journal_id_field,
            api_key |-> cleaned_data(request).journal_api_key_field]>>
    ELSE <<>>

\* form.is_valid()
form_is_valid(request) == fields_valid(request) /\ request.check_success

\* The request reaches update_or_create and the save succeeds.
settings_saved(request) ==
    /\ settings_authorized(request)
    /\ request.method = "POST"
    /\ form_is_valid(request)
    /\ request.save_ok

settings_response(request) ==
    IF request.user = "anonymous" THEN "login"
    ELSE IF ~settings_authorized(request) THEN "403"
    ELSE IF request.method # "POST" THEN "redirect rqc_adapter_manager"
    ELSE IF ~form_is_valid(request) THEN "render rqc_adapter/manager.html"
    ELSE "redirect rqc_adapter_manager"

handle_journal_settings_update(request) ==
    /\ credentials' =
          IF settings_saved(request)
          THEN update_or_create_credentials(credentials, request.journal,
                  cleaned_data(request).journal_id_field,
                  cleaned_data(request).journal_api_key_field)
          ELSE credentials
    /\ UNCHANGED <<editorAssignments, decisionDrafts, callRecords, delayedCalls,
                   nextId, remoteUp, inflight, reviewVars>>

\* A POST of an editor with the pair (9, "key") that the remote check accepts.
SettingsRequest(journal) ==
    [method |-> "POST", user |-> "editor", journal |-> journal,
     journal_id_field |-> <<"9">>, journal_api_key_field |-> <<"k", "e", "y">>,
     check_success |-> TRUE, save_ok |-> TRUE]

\* Two settings requests run in separate workers: the steps of
\* update_or_create inside transaction.atomic(), as far as the database sees
\* them. The row of the journal is selected for update; a row that another
\* transaction has selected cannot be selected until that one commits.
RowLocked(journal) ==
    \E t \in inflight : t.request.journal = journal /\ t.phase = "update"

\* INSERT of the pair as one row.
insert_credentials(rows, journal, journal_id, api_key) ==
    rows \cup {[journal |-> journal, rqc_journal_id |-> journal_id,
                api_key |-> api_key]}

\* Mutant: the save writes the identifier and leaves the key.
update_credentials_id_only(rows, journal, journal_id, api_key) ==
    {IF c.journal = journal THEN [c EXCEPT !.rqc_journal_id = journal_id] ELSE c :
        c \in rows}

\* UPDATE of both columns of the journal's row in one statement.
update_credentials(rows, journal, journal_id, api_key) ==
    {IF c.journal = journal
     THEN [c EXCEPT !.rqc_journal_id = journal_id, !.api_key = api_key]
     ELSE c : c \in rows}

\* The request up to the SELECT ... FOR UPDATE of update_or_create; a request
\* that does not reach update_or_create is answered at once.
settings_begin(proc, request) ==
    /\ \A t \in inflight : t.proc # proc
    /\ IF settings_saved(request)
       THEN /\ ~RowLocked(request.journal)
            /\ inflight' = inflight \cup
                  {[proc |-> proc, request |-> request, conflict |-> FALSE,
                    phase |-> IF HasCredentials(request.journal)
                              THEN "update" ELSE "insert"]}
            /\ UNCHANGED <<credentials, editorAssignments, decisionDrafts,
                           callRecords, delayedCalls, nextId, remoteUp, reviewVars>>
       ELSE handle_journal_settings_update(request)

\* A journal has one credentials row: an INSERT for a journal that has a
\* row fails with an IntegrityError.
insert_conflicts(rows, journal) == \E c \in rows : c.journal = journal

\* No row was found: the row is created; if another request created it in
\* the meantime the INSERT fails and the row is selected for update instead.
settings_insert(t) ==
    /\ t \in inflight
    /\ t.phase = "insert"
    /\ IF ~insert_conflicts(credentials, t.request.journal)
       THEN /\ credentials' =
                  insert_credentials(credentials, t.request.journal,
                                     cleaned_data(t.request).journal_id_field,
                                     cleaned_data(t.request).journal_api_key_field)
            /\ inflight' = inflight \ {t}
       ELSE /\ ~RowLocked(t.request.journal)
            /\ inflight' = (inflight \ {t}) \cup
                              {[t EXCEPT !.phase = "update", !.conflict = TRUE]}
            /\ UNCHANGED credentials
    /\ UNCHANGED <<editorAssignments, decisionDrafts, callRecords, delayedCalls,
                   nextId, remoteUp, reviewVars>>

\* The selected row is saved and the transaction commits.
settings_update(t) ==
    /\ t \in inflight
    /\ t.phase = "update"
    /\ credentials' =
          update_credentials(credentials, t.request.journal,
                             cleaned_data(t.request).journal_id_field,
                             cleaned_data(t.request).journal_api_key_field)
    /\ inflight' = inflight \ {t}
    /\ UNCHANGED <<editorAssignments, decisionDrafts, callRecords, delayedCalls,
                   nextId, remoteUp, reviewVars>>

(***************************************************************************)
(* views.set_reviewer_opting_status (consent capture)                      *)
(***************************************************************************)
STAGE_UNDER_REVIEW == "Under Review"
ArticleStage == [a \in Articles |-> STAGE_UNDER_REVIEW]

\* ReviewAssignment.objects.get(Q(pk = assignment_id) & Q(is_complete = False)
\*     & Q(access_code = access_code) & Q(article__stage = STAGE_UNDER_REVIEW))
\* when an access code was given, and with Q(reviewer = request.user) in the
\* place of the access code otherwise: the row is found.
\* request = [method, form_valid, status, access_code, user, journal];
\* access_code is the code of the GET or else of the POST parameters.
assignment_found(request, ra) ==
    /\ ~reviewAssignments[ra].is_complete
    /\ ArticleStage[ReviewAssignmentOf[ra].article] = STAGE_UNDER_REVIEW
    /\ IF request.access_code # None
       THEN ReviewAssignmentOf[ra].access_code = request.access_code
       ELSE ReviewAssignmentOf[ra].reviewer = request.user

\* RQCReviewerOptingDecision.objects.update_or_create(reviewer = user,
\*     journal = request.journal,
\*     defaults = {'opting_status': ..., 'opting_date': utc_now()});
\* age is utc_now() - opting_date in days.
update_or_create_decision(rows, reviewer, journal, opting_status) ==
    {x \in rows : ~(x.reviewer = reviewer /\ x.journal = journal)} \cup
    {[reviewer |-> reviewer, journal |-> journal, opting_status |-> opting_status,
      age |-> 0]}

\* Mutant: the snapshot is updated whatever the state of the assignment.
snapshot_updatable_always(x, ra) == x.review_assignment = ra

\* The filter before .update(opting_status = ..., decision_record = decision).
snapshot_updatable(x, ra) ==
    /\ x.review_assignment = ra
    /\ ~x.sent_to_rqc
    /\ ~reviewAssignments[ra].is_complete
    /\ ~reviewAssignments[ra].date_declined
    /\ reviewAssignments[ra].date_accepted # None
    /\ reviewAssignments[ra].date_accepted = "this_year"

update_snapshots(rows, ra, opting_status, decision) ==
    {IF snapshot_updatable(x, ra)
     THEN [x EXCEPT !.opting_status = opting_status, !.decision_record = decision]
     ELSE x : x \in rows}

\* The request changes the database: POST, valid form, assignment found.
opting_recorded(request, ra) ==
    request.method = "POST" /\ request.form_valid /\ assignment_found(request, ra)

\* Mutant: the journal-level decision is left alone.
record_decision_never(rows, request, ra) == rows

record_decision(rows, request, ra) ==
    update_or_create_decision(rows, ReviewAssignmentOf[ra].reviewer,
                              request.journal, request.status)

\* The response: a redirect target, or None when the view returns nothing.
opting_response(request, ra) ==
    IF request.method # "POST" THEN "core_dashboard"
    ELSE IF ~request.form_valid THEN None
    ELSE IF ~assignment_found(request, ra) THEN "referer_or_core_dashboard"
    ELSE "do_review"

set_reviewer_opting_status(request, ra) ==
    /\ IF opting_recorded(request, ra)
       THEN /\ optingDecisions' = record_decision(optingDecisions, request, ra)
            /\ optingSnapshots' =
                  update_snapshots(optingSnapshots, ra, request.status,
                                   <<ReviewAssignmentOf[ra].reviewer, request.journal>>)
       ELSE UNCHANGED <<optingDecisions, optingSnapshots>>
    /\ UNCHANGED <<credentials, editorAssignments, decisionDrafts, callRecords,
                   delayedCalls, nextId, remoteUp, inflight, reviewAssignments,
                   journalSalts>>

(***************************************************************************)
(* Environment: reviewers and the calendar                                 *)
(***************************************************************************)
OPTING_WINDOW_DAYS == 180

DecisionExists(rows, reviewer, journal) ==
    \E x \in rows : x.reviewer = reviewer /\ x.journal = journal
DecisionOf(rows, reviewer, journal) ==
    CHOOSE x \in rows : x.reviewer = reviewer /\ x.journal = journal

\* The reviewer's decision for the journal is not older than the window.
ValidDecision(rows, reviewer, journal) ==
    /\ DecisionExists(rows, reviewer, journal)
    /\ DecisionOf(rows, reviewer, journal).age <= OPTING_WINDOW_DAYS

\* Mutant: every snapshot starts undefined.
new_snapshots_undefined(rows, ra) ==
    {[review_assignment |-> ra, opting_status |-> UNDEFINED,
      sent_to_rqc |-> FALSE, decision_record |-> <<>>]}

\* The snapshots that may be made when a review request is accepted: with
\* the status of the reviewer's decision and linked to it, undefined when
\* there is no decision; for a decision older than the window either.
new_snapshots(rows, ra) ==
    LET reviewer == ReviewAssignmentOf[ra].reviewer
        journal == ArticleJournal[ReviewAssignmentOf[ra].article]
        linked == [review_assignment |-> ra,
                   opting_status |-> DecisionOf(rows, reviewer, journal).opting_status,
                   sent_to_rqc |-> FALSE, decision_record |-> <<reviewer, journal>>]
        undefined == [review_assignment |-> ra, opting_status |-> UNDEFINED,
                      sent_to_rqc |-> FALSE, decision_record |-> <<>>]
    IN IF ~DecisionExists(rows, reviewer, journal) THEN {undefined}
       ELSE IF ValidDecision(rows, reviewer, journal) THEN {linked}
       ELSE {linked, undefined}

\* The reviewer accepts the review request.
accept_review(ra) ==
    /\ reviewAssignments[ra].date_accepted = None
    /\ ~reviewAssignments[ra].date_declined
    /\ ~reviewAssignments[ra].is_complete
    /\ reviewAssignments' =
          [reviewAssignments EXCEPT ![ra].date_accepted = "this_year"]
    /\ IF /\ HasCredentials(ArticleJournal[ReviewAssignmentOf[ra].article])
          /\ ~HasSnapshot(optingSnapshots, ra)
       THEN \E x \in new_snapshots(optingDecisions, ra) :
               optingSnapshots' = optingSnapshots \cup {x}
       ELSE UNCHANGED optingSnapshots
    /\ UNCHANGED <<credentials, editorAssignments, decisionDrafts, callRecords,
                   delayedCalls, nextId, remoteUp, inflight, optingDecisions,
                   journalSalts>>

\* The platform deletes the review round of the assignment; the assignment
\* stays, its review_round becomes null.
delete_round(ra) ==
    /\ reviewAssignments[ra].review_round
    /\ reviewAssignments' = [reviewAssignments EXCEPT ![ra].review_round = FALSE]
    /\ UNCHANGED <<credentials, editorAssignments, decisionDrafts, callRecords,
                   delayedCalls, nextId, remoteUp, inflight, optingDecisions,
                   optingSnapshots, journalSalts>>

\* The reviewer declines; the platform clears date_accepted.
decline_review(ra) ==
    /\ ~reviewAssignments[ra].date_declined
    /\ ~reviewAssignments[ra].is_complete
    /\ reviewAssignments' =
          [reviewAssignments EXCEPT ![ra].date_declined = TRUE,
                                    ![ra].date_accepted = None]
    /\ UNCHANGED <<credentials, editorAssignments, decisionDrafts, callRecords,
                   delayedCalls, nextId, remoteUp, inflight, optingDecisions,
                   optingSnapshots, journalSalts>>

\* The reviewer hands in the review.
complete_review(ra) ==
    /\ reviewAssignments[ra].date_accepted # None
    /\ ~reviewAssignments[ra].is_complete
    /\ reviewAssignments' = [reviewAssignments EXCEPT ![ra].is_complete = TRUE]
    /\ UNCHANGED <<credentials, editorAssignments, decisionDrafts, callRecords,
                   delayedCalls, nextId, remoteUp, inflight, optingDecisions,
                   optingSnapshots, journalSalts>>

\* 1 January: every date_accepted now lies in an earlier year.
new_year ==
    /\ reviewAssignments' =
          [ra \in ReviewAssignmentIds |->
              IF reviewAssignments[ra].date_accepted = "this_year"
              THEN [reviewAssignments[ra] EXCEPT !.date_accepted = "last_year"]
              ELSE reviewAssignments[ra]]
    /\ UNCHANGED <<credentials, editorAssignments, decisionDrafts, callRecords,
                   delayedCalls, nextId, remoteUp, inflight, optingDecisions,
                   optingSnapshots, journalSalts>>

\* TickDays pass: the decisions grow older (ages beyond the window are all alike).
days_pass ==
    /\ optingDecisions' =
          {[x EXCEPT !.age = Min(@ + TickDays, OPTING_WINDOW_DAYS + 1)]
             : x \in optingDecisions}
    /\ UNCHANGED <<credentials, editorAssignments, decisionDrafts, callRecords,
                   delayedCalls, nextId, remoteUp, inflight, reviewAssignments,
                   optingSnapshots, journalSalts>>

(***************************************************************************)
(* History variables (observers of the handlers)                           *)
(***************************************************************************)
\* One delivery: the article, the outcome and the editor list of the payload;
\* for a redelivery the DelayedCall's id and its remaining_tries before the
\* attempt, otherwise id = 0.
Delivery(id, article, code, edassgmt_set) ==
    [id |-> id, article |-> article, code |-> code, edassgmt_set |-> edassgmt_set,
     remaining_tries |-> INITIAL_TRIES]

\* lastOp: the handler that ran last, the deliveries it made and the ids of
\* the DelayedCall rows it deleted without a delivery.
OpDone(name, deliveries, dropped) ==
    [op |-> name, deliveries |-> deliveries, dropped |-> dropped]
Op(name, deliveries) == OpDone(name, deliveries, {})

Accepted(deliveries) ==
    {[article |-> x.article, edassgmt_set |-> x.edassgmt_set] :
        x \in {y \in deliveries : Success(y.code)}}

SubmitDeliveries(delivers, article, code) ==
    IF delivers
    THEN {Delivery(0, article, code, get_editors_info(callRecords, article))}
    ELSE {}

\* Values generate_random_salt() may return.
FreshSalts == {"s1", "s2"}
\* No review is under way in the ledger and editor specifications: no salt
\* is ever drawn there.
LedgerSalts == {"s1"}
\* The consent and review specifications draw one value (one journal).
ReviewSalts == {"s1"}

\* A request of an editor of the journal, sent without a Referer header.
EditorRequest(journal) == [journal |-> journal, user |-> EditorUser, referer |-> NullStr]

\* The ledger specifications keep lastOp only.
NoHistory == UNCHANGED <<sent, owed>>

(***************************************************************************)
(* Specifications                                                          *)
(***************************************************************************)
Init ==
    /\ credentials = {}
    /\ editorAssignments = [a \in Articles |-> <<>>]
    /\ decisionDrafts = [a \in Articles |-> <<>>]
    /\ callRecords = {}
    /\ delayedCalls = {}
    /\ nextId = 1
    /\ remoteUp = FALSE
    /\ sent = {}
    /\ owed = {}
    /\ inflight = {}
    /\ reviewAssignments = InitialReviewAssignments
    /\ optingDecisions = {}
    /\ optingSnapshots = {}
    /\ journalSalts = {}
    /\ lastOp = Op("init", {})

SettingsUpdate ==
    /\ \E j \in Journals : handle_journal_settings_update(SettingsRequest(j))
    /\ lastOp' = Op("settings", {})
    /\ NoHistory

\* Spec: every delivery outcome of a submission, within one back-off period.
SubmittedArticles == {"a1"}

ExplicitSubmit ==
    \E j \in Journals, a \in SubmittedArticles, code \in StatusCodes :
        /\ Retryable(code) => nextId <= MaxDelayedCalls
        /\ \E fresh \in LedgerSalts :
              submit_article_for_grading(EditorRequest(j), a, code, fresh)
        /\ lastOp' = Op("submit", SubmitDeliveries(submit_delivers(j, a), a, code))
        /\ NoHistory

ImplicitSubmit ==
    \E a \in Articles, code \in {200, 400, 503} :
        /\ Retryable(code) => nextId <= MaxDelayedCalls
        /\ \E fresh \in LedgerSalts : implicit_call_mhs_submission(a, code, fresh)
        /\ lastOp' = Op("implicit", SubmitDeliveries(implicit_delivers(a), a, code))
        /\ NoHistory

Sweep ==
    \E resp \in SweepResponses :
        /\ \E fresh \in LedgerSalts :
              /\ rqc_make_delayed_calls(resp, fresh)
              /\ LET st == sweep_result(resp, fresh)
                 IN lastOp' = OpDone("sweep", st.log, st.dropped)
        /\ NoHistory

Next ==
    \/ SettingsUpdate
    \/ ExplicitSubmit
    \/ ImplicitSubmit
    \/ Sweep

Spec == Init /\ [][Next]_vars

\* SpecSweep: the ledger over time (submissions, the sweep, the clock).
SweepSubmit ==
    \E j \in Journals, a \in Articles, code \in {200, 404, 500} :
        /\ Retryable(code) => nextId <= MaxSweepCalls
        /\ \E fresh \in LedgerSalts :
              submit_article_for_grading(EditorRequest(j), a, code, fresh)
        /\ lastOp' = Op("submit", SubmitDeliveries(submit_delivers(j, a), a, code))
        /\ NoHistory

Clock ==
    /\ Tick
    /\ lastOp' = Op("tick", {})
    /\ NoHistory

NextSweep ==
    \/ SettingsUpdate
    \/ SweepSubmit
    \/ Sweep
    \/ Clock

SpecSweep == Init /\ [][NextSweep]_vars

\* SpecLive: one article whose explicit submission may fail while the remote
\* endpoint is down; cron runs the sweep again and again and time passes.
\* owed holds the articles with a retryable failure and no accepted delivery
\* since.
LiveArticles == {"a1"}

Delivered(deliveries) == {x.article : x \in {y \in deliveries : Success(y.code)}}
Failed(deliveries) == {x.article : x \in {y \in deliveries : Retryable(y.code)}}

LiveSubmit ==
    \E a \in LiveArticles, code \in {200, 500} :
        /\ Retryable(code) => nextId <= MaxLiveCalls
        /\ \E fresh \in LedgerSalts :
              submit_article_for_grading(EditorRequest(ArticleJournal[a]), a, code, fresh)
        /\ lastOp' = Op("submit", SubmitDeliveries(submit_delivers(ArticleJournal[a], a), a, code))
        /\ owed' = (owed \cup Failed(lastOp'.deliveries)) \ Delivered(lastOp'.deliveries)
        /\ UNCHANGED sent

LiveSweep ==
    \E resp \in SweepResponses :
        /\ \E fresh \in LedgerSalts :
              /\ rqc_make_delayed_calls(resp, fresh)
              /\ LET st == sweep_result(resp, fresh)
                 IN lastOp' = OpDone("sweep", st.log, st.dropped)
        /\ owed' = owed \ Delivered(lastOp'.deliveries)
        /\ UNCHANGED sent

Recovery ==
    /\ RemoteRecovers
    /\ lastOp' = Op("recovery", {})
    /\ NoHistory

NextLive ==
    \/ SettingsUpdate
    \/ LiveSubmit
    \/ LiveSweep
    \/ Clock
    \/ Recovery

\* cron starts the sweep every day and time does not stop.
SpecLive == Init /\ [][NextLive]_vars /\ WF_vars(LiveSweep) /\ WF_vars(Clock)

\* SpecEditors: the editor set of the payloads while the platform's editor
\* assignments and decision drafts change between submissions.
EditedArticles == {"a1"}
EditorTypes == {"editor", "section-editor"}

EditorsSettings ==
    /\ \E j \in Journals : handle_journal_settings_update(SettingsRequest(j))
    /\ lastOp' = Op("settings", {})
    /\ UNCHANGED <<sent, owed>>

EditorsSubmit ==
    \E j \in Journals, a \in EditedArticles, code \in {200, 400} :
        /\ \E fresh \in LedgerSalts :
              submit_article_for_grading(EditorRequest(j), a, code, fresh)
        /\ lastOp' = Op("submit", SubmitDeliveries(submit_delivers(j, a), a, code))
        /\ sent' = sent \cup Accepted(lastOp'.deliveries)
        /\ UNCHANGED owed

AssignEditor ==
    /\ \E a \in EditedArticles, e \in Editors, t \in EditorTypes :
          create_editor_assignment(a, e, t)
    /\ lastOp' = Op("platform", {})
    /\ UNCHANGED <<sent, owed>>

UnassignEditor ==
    /\ \E a \in EditedArticles, i \in 1..MaxAssignments :
          delete_editor_assignment(a, i)
    /\ lastOp' = Op("platform", {})
    /\ UNCHANGED <<sent, owed>>

CreateDraft ==
    /\ \E a \in EditedArticles, se \in Editors \cup {None}, e \in Editors \cup {None} :
          create_decision_draft(a, se, e)
    /\ lastOp' = Op("platform", {})
    /\ UNCHANGED <<sent, owed>>

DeleteDraft ==
    /\ \E a \in EditedArticles, i \in 1..MaxDrafts : delete_decision_draft(a, i)
    /\ lastOp' = Op("platform", {})
    /\ UNCHANGED <<sent, owed>>

NextEditors ==
    \/ EditorsSettings
    \/ EditorsSubmit
    \/ AssignEditor
    \/ UnassignEditor
    \/ CreateDraft
    \/ DeleteDraft

SpecEditors == Init /\ [][NextEditors]_vars

\* SpecConsent: reviewers accept, decline and complete reviews of article a1
\* and submit their consent, the calendar advances, and an editor submits
\* the article for grading.
ReviewedArticles == {"a1"}
ReviewJournal == "j1"

\* lastOp of this specification: the handler, its input, the assignment or
\* article it was about, and for a submission the review assignments
\* selected and the document assembled.
ConsentOp(name, request, target, selection, document) ==
    [op |-> name, deliveries |-> {}, dropped |-> {}, request |-> request,
     target |-> target, selection |-> selection, document |-> document]

\* lastOp of an operation that is no request to the consent handler.
NoRequest ==
    [method |-> None, form_valid |-> FALSE, status |-> None,
     access_code |-> None, user |-> None, journal |-> None]

PlatformOp(name, target) == ConsentOp(name, NoRequest, target, <<>>, None)

\* Requests of the reviewer's session, of another user's session, and with
\* a right or a wrong access code.
OptingLogins ==
    {[access_code |-> None, user |-> "r1"], [access_code |-> None, user |-> "u2"]}
OptingCodes(ra) ==
    {[access_code |-> c, user |-> "anonymous"] :
        c \in {ReviewAssignmentOf[ra].access_code, "wrong-code"}}

ConsentSettings ==
    /\ handle_journal_settings_update(SettingsRequest(ReviewJournal))
    /\ lastOp' = PlatformOp("settings", ReviewJournal)
    /\ NoHistory

AcceptReview ==
    \E ra \in ReviewAssignmentIds :
        /\ accept_review(ra)
        /\ lastOp' = PlatformOp("platform", ra)
        /\ NoHistory

\* The first-round review is declined or handed in; the second-round review
\* stays open.
ClosedReviews == {"ra1"}

DeclineReview ==
    \E ra \in ClosedReviews :
        /\ decline_review(ra)
        /\ lastOp' = PlatformOp("platform", ra)
        /\ NoHistory

CompleteReview ==
    \E ra \in ClosedReviews :
        /\ complete_review(ra)
        /\ lastOp' = PlatformOp("platform", ra)
        /\ NoHistory

NewYear ==
    /\ new_year
    /\ lastOp' = PlatformOp("new_year", None)
    /\ NoHistory

DaysPass ==
    /\ days_pass
    /\ lastOp' = PlatformOp("days_pass", None)
    /\ NoHistory

\* The consent form is posted with the session of the reviewer or with an
\* access code; the site is the journal of the assignment's article.
OptingRequest(method, form_valid, status, who, ra) ==
    [method |-> method, form_valid |-> form_valid, status |-> status,
     access_code |-> who.access_code, user |-> who.user,
     journal |-> ArticleJournal[ReviewAssignmentOf[ra].article]]

OptingRequests(ra) ==
    {OptingRequest("GET", TRUE, OPT_IN, [access_code |-> None, user |-> "r1"], ra),
     OptingRequest("POST", FALSE, None, [access_code |-> None, user |-> "r1"], ra)}
    \cup {OptingRequest("POST", TRUE, status, who, ra) :
             status \in {OPT_IN, OPT_OUT}, who \in OptingLogins \cup OptingCodes(ra)}

OptingSubmit ==
    \E ra \in ReviewAssignmentIds :
        \E request \in OptingRequests(ra) :
            /\ set_reviewer_opting_status(request, ra)
            /\ lastOp' = ConsentOp("opting", request, ra, <<>>,
                                   opting_response(request, ra))
            /\ NoHistory

\* The article is sent to the remote endpoint (and its snapshots marked).
ConsentSubmit ==
    \E a \in ReviewedArticles, code \in {200, 400}, fresh \in ReviewSalts :
        LET request == EditorRequest(ArticleJournal[a]) IN
        /\ submit_delivers(request.journal, a)
        /\ submit_article_for_grading(request, a, code, fresh)
        /\ lastOp' = PlatformOp("submit", a)
        /\ NoHistory

\* The journal has its credentials before the reviewers are invited.
InitConsent ==
    /\ credentials = update_or_create_credentials({}, ReviewJournal, 9, <<"k", "e", "y">>)
    /\ editorAssignments = [a \in Articles |-> <<>>]
    /\ decisionDrafts = [a \in Articles |-> <<>>]
    /\ callRecords = {}
    /\ delayedCalls = {}
    /\ nextId = 1
    /\ remoteUp = FALSE
    /\ sent = {}
    /\ owed = {}
    /\ inflight = {}
    /\ reviewAssignments = InitialReviewAssignments
    /\ optingDecisions = {}
    /\ optingSnapshots = {}
    /\ journalSalts = {}
    /\ lastOp = Op("init", {})

NextConsent ==
    \/ AcceptReview
    \/ DeclineReview
    \/ CompleteReview
    \/ NewYear
    \/ DaysPass
    \/ OptingSubmit
    \/ ConsentSubmit

SpecConsent == InitConsent /\ [][NextConsent]_vars

\* SpecReviews: the documents assembled for article a1 while its reviewers
\* accept, decline, complete and give or withdraw their consent.
ReviewerOpts ==
    \E ra \in ReviewAssignmentIds, status \in {OPT_IN, OPT_OUT} :
        LET request == OptingRequest("POST", TRUE, status,
                                     [access_code |-> None, user |-> "r1"], ra) IN
        /\ set_reviewer_opting_status(request, ra)
        /\ lastOp' = PlatformOp("opting", ra)
        /\ NoHistory

ReviewsSubmit ==
    \E a \in ReviewedArticles, code \in {200, 400}, fresh \in ReviewSalts :
        LET request == EditorRequest(ArticleJournal[a]) IN
        /\ submit_delivers(request.journal, a)
        /\ submit_article_for_grading(request, a, code, fresh)
        /\ lastOp' = ConsentOp("submit", code, a,
                               ReviewSelection(reviewAssignments, optingSnapshots, a),
                               submit_post_data(request, a, fresh))
        /\ NoHistory

NextReviews ==
    \/ ConsentSettings
    \/ AcceptReview
    \/ DeclineReview
    \/ CompleteReview
    \/ DaysPass
    \/ ReviewerOpts
    \/ ReviewsSubmit

SpecReviews == Init /\ [][NextReviews]_vars

\* SpecDocument: fetch_post_data applied to every combination of its
\* redirect target, interactive flag and acting user, and the document of
\* an implicit call.
DocumentUsers ==
    {NoUser, AnonymousUser, Account(NullStr), Account(EmptyStr), EditorUser,
     Account(Str("section@journal", 15))}
DocumentPages ==
    {EmptyStr, Str("review_in_review/a1", 20), Str("https://journal/referer", 23)}

DocumentInput(article, mhs_submissionpage, is_interactive, user) ==
    [article |-> article, mhs_submissionpage |-> mhs_submissionpage,
     is_interactive |-> is_interactive, user |-> user]

DocumentInputs ==
    {DocumentInput(a, page, flag, user) :
        a \in Articles, page \in DocumentPages, flag \in BOOLEAN,
        user \in DocumentUsers}

DocumentOp(name, input, document) ==
    [op |-> name, deliveries |-> {}, dropped |-> {}, request |-> input,
     document |-> document]

InitDocument ==
    /\ credentials = {}
    /\ editorAssignments = [a \in Articles |-> <<>>]
    /\ decisionDrafts = [a \in Articles |-> <<>>]
    /\ callRecords = {}
    /\ delayedCalls = {}
    /\ nextId = 1
    /\ remoteUp = FALSE
    /\ sent = {}
    /\ owed = {}
    /\ inflight = {}
    /\ reviewAssignments = InitialReviewAssignments
    /\ optingDecisions = {}
    /\ optingSnapshots = {}
    /\ journalSalts = {}
    /\ \E input \in DocumentInputs : lastOp = DocumentOp("input", input, None)

\* fetch_post_data(article, journal, mhs_submissionpage, is_interactive, user)
FetchDocument ==
    \E fresh \in ReviewSalts :
        LET input == lastOp.request
            journal == ArticleJournal[input.article] IN
        /\ lastOp.op = "input"
        /\ lastOp' = DocumentOp("fetch", input,
                        fetch_post_data(callRecords, optingSnapshots, journalSalts,
                                        input.article, journal,
                                        input.mhs_submissionpage,
                                        input.is_interactive, input.user, fresh))
        /\ journalSalts' = salts_after_fetch(optingSnapshots, journalSalts,
                                             input.article, journal, fresh)
        /\ UNCHANGED <<credentials, editorAssignments, decisionDrafts, callRecords,
                       delayedCalls, nextId, remoteUp, sent, owed, inflight,
                       reviewAssignments, optingDecisions, optingSnapshots>>

\* The document a workflow event assembles for the article.
ImplicitDocument ==
    \E fresh \in ReviewSalts :
        LET article == lastOp.request.article IN
        /\ lastOp.op = "input"
        /\ lastOp' = DocumentOp("implicit",
                        DocumentInput(article, EmptyStr, FALSE, NoUser),
                        implicit_post_data(callRecords, optingSnapshots,
                                           journalSalts, article, fresh))
        /\ journalSalts' = salts_after_fetch(optingSnapshots, journalSalts, article,
                                             ArticleJournal[article], fresh)
        /\ UNCHANGED <<credentials, editorAssignments, decisionDrafts, callRecords,
                       delayedCalls, nextId, remoteUp, sent, owed, inflight,
                       reviewAssignments, optingDecisions, optingSnapshots>>

NextDocument ==
    \/ FetchDocument
    \/ ImplicitDocument

SpecDocument == InitDocument /\ [][NextDocument]_vars

\* SpecRace: two workers serve explicit submissions of the same article at
\* the same time while the platform's editors change.
Workers == {"w1", "w2"}

RaceAssemble ==
    /\ \E w \in Workers, a \in EditedArticles :
          \E fresh \in LedgerSalts :
              submit_assemble(w, EditorRequest(ArticleJournal[a]), a, fresh)
    /\ lastOp' = Op("assemble", {})
    /\ UNCHANGED <<sent, owed>>

RaceDeliver ==
    \E r \in inflight, code \in {200, 400} :
        /\ submit_deliver(r, code)
        /\ lastOp' = Op("submit", {Delivery(0, r.article, code, r.post_data.edassgmt_set)})
        /\ sent' = sent \cup Accepted(lastOp'.deliveries)
        /\ UNCHANGED owed

NextRace ==
    \/ EditorsSettings
    \/ RaceAssemble
    \/ RaceDeliver
    \/ AssignEditor
    \/ UnassignEditor

SpecRace == Init /\ [][NextRace]_vars

\* SpecCredentials: two workers serve the settings form of journals j1 and
\* j2: well-formed and malformed pairs, pairs the remote check rejects, and
\* requests of users who may not edit the settings.
SettingsForm(method, user, journal, journal_id_field, journal_api_key_field,
             check_success) ==
    [method |-> method, user |-> user, journal |-> journal,
     journal_id_field |-> journal_id_field,
     journal_api_key_field |-> journal_api_key_field,
     check_success |-> check_success, save_ok |-> TRUE]

CredentialRequests ==
    {SettingsForm("POST", "editor", "j1", <<"6">>, <<"a", "b", "c">>, TRUE),
     SettingsForm("POST", "editor", "j1", <<"9">>, <<"t", "e", "s", "t">>, TRUE),
     SettingsForm("POST", "editor", "j2", <<"1", "7">>, <<"k", "e", "y">>, TRUE),
     SettingsForm("POST", "editor", "j1", <<"6">>, <<"t", "e", "s", "t">>, FALSE),
     SettingsForm("POST", "editor", "j1", <<>>, <<>>, TRUE),
     SettingsForm("POST", "editor", "j1", <<"6">>, <<"@", "t", "e", "s", "t", "?">>, TRUE),
     SettingsForm("POST", "editor", "j1", <<"t", "e", "s", "t">>, <<"t", "e", "s", "t">>, TRUE),
     SettingsForm("POST", "editor", "j2", <<"9">>, <<>>, TRUE),
     SettingsForm("GET", "editor", "j1", <<"9">>, <<"t", "e", "s", "t">>, TRUE),
     SettingsForm("POST", "bad_user", "j1", <<"7">>, <<"t", "e", "s", "t">>, TRUE),
     SettingsForm("POST", "anonymous", "j1", <<"9">>, <<"t", "e", "s", "t">>, TRUE)}

\* lastOp of this specification: the request served, the calls made to the
\* remote credential check, the response, and whether the save met a row
\* created by the other worker.
SettingsOp(name, request, checks, response, conflict) ==
    [op |-> name, deliveries |-> {}, dropped |-> {}, request |-> request,
     checks |-> checks, response |-> response, conflict |-> conflict]

CredentialsBegin ==
    \E w \in Workers, request \in CredentialRequests :
        /\ settings_begin(w, request)
        /\ lastOp' = SettingsOp("settings", request, apikeycheck_calls(request),
                                IF settings_saved(request) THEN None
                                ELSE settings_response(request), FALSE)
        /\ NoHistory

CredentialsInsert ==
    \E t \in inflight :
        /\ settings_insert(t)
        /\ lastOp' = SettingsOp(IF t \in inflight' THEN "save" ELSE "conflict",
                                t.request, <<>>,
                                IF HasCredentials(t.request.journal) THEN None
                                ELSE settings_response(t.request), FALSE)
        /\ NoHistory

CredentialsUpdate ==
    \E t \in inflight :
        /\ settings_update(t)
        /\ lastOp' = SettingsOp("save", t.request, <<>>,
                                settings_response(t.request), t.conflict)
        /\ NoHistory

InitCredentials ==
    /\ credentials = {}
    /\ editorAssignments = [a \in Articles |-> <<>>]
    /\ decisionDrafts = [a \in Articles |-> <<>>]
    /\ callRecords = {}
    /\ delayedCalls = {}
    /\ nextId = 1
    /\ remoteUp = FALSE
    /\ sent = {}
    /\ owed = {}
    /\ inflight = {}
    /\ reviewAssignments = InitialReviewAssignments
    /\ optingDecisions = {}
    /\ optingSnapshots = {}
    /\ journalSalts = {}
    /\ lastOp = SettingsOp("init", SettingsRequest("j1"), <<>>, None, FALSE)

NextCredentials ==
    \/ CredentialsBegin
    \/ CredentialsInsert
    \/ CredentialsUpdate

SpecCredentials == InitCredentials /\ [][NextCredentials]_vars

\* SpecSalt: two workers anonymize the reviewer for journals j1 and j2 at
\* the same time; each generates its own salt.
\* lastOp of this specification: how the salt was obtained, the worker, the journal,
\* the salt the worker generated, and the pseudonymous address it sent (none while the
\* get_or_create is under way).
SaltOp(name, path, proc, journal, fresh, email) ==
    [op |-> name, deliveries |-> {}, dropped |-> {}, path |-> path, proc |-> proc,
     journal |-> journal, fresh |-> fresh, email |-> email]

NoAddress == [of |-> <<>>, len |-> 0]

SaltGet ==
    \E w \in Workers, reviewer \in Reviewers, journal \in Journals :
        \E fresh \in FreshSalts :
            /\ salt_get(w, reviewer, journal, fresh)
            /\ lastOp' =
                  IF SaltExists(journalSalts, journal)
                  THEN SaltOp("anonymized", "found", w, journal, fresh,
                              get_reviewer_info(reviewer, FALSE, journal,
                                                journalSalts).email)
                  ELSE SaltOp("get", "missing", w, journal, fresh, NoAddress)
            /\ NoHistory

SaltCreate ==
    \E t \in inflight :
        /\ salt_create(t)
        /\ lastOp' =
              SaltOp("anonymized",
                     IF salt_conflicts(journalSalts, t.journal)
                     THEN "read back" ELSE "created",
                     t.proc, t.journal, t.fresh,
                     create_pseudo_address(ReviewerAccount[t.reviewer].email,
                         salt_used(journalSalts, t.journal, t.fresh)))
        /\ NoHistory

InitSalt ==
    /\ credentials = {}
    /\ editorAssignments = [a \in Articles |-> <<>>]
    /\ decisionDrafts = [a \in Articles |-> <<>>]
    /\ callRecords = {}
    /\ delayedCalls = {}
    /\ nextId = 1
    /\ remoteUp = FALSE
    /\ sent = {}
    /\ owed = {}
    /\ inflight = {}
    /\ reviewAssignments = InitialReviewAssignments
    /\ optingDecisions = {}
    /\ optingSnapshots = {}
    /\ journalSalts = {}
    /\ lastOp = SaltOp("init", None, None, None, None, NoAddress)

NextSalt ==
    \/ SaltGet
    \/ SaltCreate

SpecSalt == InitSalt /\ [][NextSalt]_vars

\* SpecRecord: article a1 is submitted explicitly, by workflow events and
\* by the sweep while time passes and its editors change; sent keeps every
\* payload the remote endpoint accepted.
RecordSettings ==
    /\ \E a \in EditedArticles :
          handle_journal_settings_update(SettingsRequest(ArticleJournal[a]))
    /\ lastOp' = Op("settings", {})
    /\ NoHistory

RecordSubmit ==
    \E a \in EditedArticles, code \in {200, 500} :
        /\ Retryable(code) => nextId <= MaxSweepCalls
        /\ \E fresh \in LedgerSalts :
              submit_article_for_grading(EditorRequest(ArticleJournal[a]), a, code, fresh)
        /\ lastOp' = Op("submit",
                        SubmitDeliveries(submit_delivers(ArticleJournal[a], a), a, code))
        /\ sent' = sent \cup Accepted(lastOp'.deliveries)
        /\ UNCHANGED owed

RecordImplicit ==
    \E a \in EditedArticles, code \in {200, 400} :
        /\ \E fresh \in LedgerSalts : implicit_call_mhs_submission(a, code, fresh)
        /\ lastOp' = Op("implicit", SubmitDeliveries(implicit_delivers(a), a, code))
        /\ sent' = sent \cup Accepted(lastOp'.deliveries)
        /\ UNCHANGED owed

\* The sweep's redeliveries are accepted or refused for good.
RecordResponses == [{d.id : d \in Attempted(delayedCalls)} -> {200, 404}]

RecordSweep ==
    \E resp \in RecordResponses :
        /\ \E fresh \in LedgerSalts :
              /\ rqc_make_delayed_calls(resp, fresh)
              /\ LET st == sweep_result(resp, fresh)
                 IN lastOp' = OpDone("sweep", st.log, st.dropped)
        /\ sent' = sent \cup Accepted(lastOp'.deliveries)
        /\ UNCHANGED owed

RecordAssign ==
    /\ \E a \in EditedArticles, e \in Editors : create_editor_assignment(a, e, "editor")
    /\ lastOp' = Op("platform", {})
    /\ NoHistory

NextRecord ==
    \/ RecordSettings
    \/ RecordSubmit
    \/ RecordImplicit
    \/ RecordSweep
    \/ Clock
    \/ RecordAssign
    \/ UnassignEditor

SpecRecord == Init /\ [][NextRecord]_vars

\* The reviewer has a decision for the journal that is not older than the
\* window (plugins.rqc_adapter.utils).
has_opted_in_or_out(rows, user, journal) == ValidDecision(rows, user, journal)

\* Mutant: a decision of the reviewer for any journal counts.
render_reviewer_opting_form_any_journal(journal, ra) ==
    IF /\ HasCredentials(journal)
       /\ ~\E j \in Journals :
             has_opted_in_or_out(optingDecisions, ReviewAssignmentOf[ra].reviewer, j)
    THEN "reviewer_opting_form.html"
    ELSE ""

\* The hook of the review form at the site of journal: the consent form, or
\* the empty string.
render_reviewer_opting_form(journal, ra) ==
    IF /\ HasCredentials(journal)
       /\ ~has_opted_in_or_out(optingDecisions, ReviewAssignmentOf[ra].reviewer, journal)
    THEN "reviewer_opting_form.html"
    ELSE ""

\* SpecForm: the consent form of the review page at the sites of both
\* journals, while the journals get their credentials, the reviewer posts
\* decisions at either site and the calendar advances.
FormRequest(journal) == [NoRequest EXCEPT !.journal = journal]

FormSettings ==
    \E journal \in Journals :
        /\ handle_journal_settings_update(SettingsRequest(journal))
        /\ lastOp' = PlatformOp("settings", journal)
        /\ NoHistory

FormOpting ==
    \E ra \in ReviewAssignmentIds, status \in {OPT_IN, OPT_OUT}, journal \in Journals :
        LET request == [method |-> "POST", form_valid |-> TRUE, status |-> status,
                        access_code |-> None,
                        user |-> ReviewAssignmentOf[ra].reviewer,
                        journal |-> journal] IN
        /\ set_reviewer_opting_status(request, ra)
        /\ lastOp' = ConsentOp("opting", request, ra, <<>>,
                               opting_response(request, ra))
        /\ NoHistory

FormRender ==
    \E ra \in ReviewAssignmentIds, journal \in Journals :
        /\ UNCHANGED <<credentials, editorAssignments, decisionDrafts, callRecords,
                       delayedCalls, nextId, remoteUp, inflight, reviewAssignments,
                       optingDecisions, optingSnapshots, journalSalts>>
        /\ lastOp' = ConsentOp("render", FormRequest(journal), ra, <<>>,
                               render_reviewer_opting_form(journal, ra))
        /\ NoHistory

NextForm ==
    \/ FormSettings
    \/ AcceptReview
    \/ FormOpting
    \/ DaysPass
    \/ FormRender

SpecForm == Init /\ [][NextForm]_vars

\* SpecRounds: the review sets assembled for article a1 while its review
\* requests are accepted, declined and completed and their review rounds
\* are deleted.  sent keeps the review sets of the delivered documents, by
\* the invitation dates of their reviews.
RoundsOp(name, target, code, review_set) ==
    [op |-> name, target |-> target, code |-> code, review_set |-> review_set]

Invited(review_set) == {review_set[i].invited : i \in 1..Len(review_set)}

RoundsSettings ==
    /\ handle_journal_settings_update(SettingsRequest(ReviewJournal))
    /\ lastOp' = RoundsOp("settings", ReviewJournal, 0, <<>>)
    /\ NoHistory

RoundsAccept ==
    \E ra \in ReviewAssignmentIds :
        /\ accept_review(ra)
        /\ lastOp' = RoundsOp("accept", ra, 0, <<>>)
        /\ NoHistory

RoundsDecline ==
    \E ra \in ReviewAssignmentIds :
        /\ decline_review(ra)
        /\ lastOp' = RoundsOp("decline", ra, 0, <<>>)
        /\ NoHistory

RoundsComplete ==
    \E ra \in ClosedReviews :
        /\ complete_review(ra)
        /\ lastOp' = RoundsOp("complete", ra, 0, <<>>)
        /\ NoHistory

RoundsDelete ==
    \E ra \in ReviewAssignmentIds :
        /\ delete_round(ra)
        /\ lastOp' = RoundsOp("delete_round", ra, 0, <<>>)
        /\ NoHistory

RoundsSubmit ==
    \E a \in ReviewedArticles, code \in {200, 400}, fresh \in ReviewSalts :
        LET request == EditorRequest(ArticleJournal[a])
            review_set == submit_post_data(request, a, fresh).review_set IN
        /\ submit_delivers(request.journal, a)
        /\ submit_article_for_grading(request, a, code, fresh)
        /\ lastOp' = RoundsOp("submit", a, code, review_set)
        /\ sent' = IF Success(code) THEN sent \cup {Invited(review_set)} ELSE sent
        /\ UNCHANGED owed

NextRounds ==
    \/ RoundsSettings
    \/ RoundsAccept
    \/ RoundsDecline
    \/ RoundsComplete
    \/ RoundsDelete
    \/ RoundsSubmit

SpecRounds == Init /\ [][NextRounds]_vars

\* SpecTries: the rows of the ledger from their creation to their deletion,
\* under a sweep that cron starts again and again while time passes.  sent
\* counts, for every row present before the step or made by it, the
\* deliveries the sweep has attempted for it.
AttemptsOf(id) ==
    IF \E e \in sent : e.id = id
    THEN (CHOOSE e \in sent : e.id = id).attempts
    ELSE 0

Counted(attempted) ==
    {[id |-> d.id, attempts |-> AttemptsOf(d.id) + (IF d.id \in attempted THEN 1 ELSE 0)]
        : d \in delayedCalls}
    \cup {[id |-> d.id, attempts |-> 0]
             : d \in {x \in delayedCalls' : \A y \in delayedCalls : y.id # x.id}}

TriesSubmit ==
    \E a \in LiveArticles, code \in {200, 500} :
        /\ Retryable(code) => nextId <= MaxLiveCalls
        /\ \E fresh \in LedgerSalts :
              submit_article_for_grading(EditorRequest(ArticleJournal[a]), a, code, fresh)
        /\ lastOp' = Op("submit", SubmitDeliveries(submit_delivers(ArticleJournal[a], a), a, code))
        /\ sent' = Counted({})
        /\ UNCHANGED owed

TriesSweep ==
    \E resp \in SweepResponses :
        /\ \E fresh \in LedgerSalts :
              /\ rqc_make_delayed_calls(resp, fresh)
              /\ LET st == sweep_result(resp, fresh)
                 IN lastOp' = OpDone("sweep", st.log, st.dropped)
        /\ sent' = Counted({x.id : x \in lastOp'.deliveries})
        /\ UNCHANGED owed

NextTries ==
    \/ RecordSettings
    \/ TriesSubmit
    \/ TriesSweep
    \/ Clock

SpecTries == Init /\ [][NextTries]_vars /\ WF_vars(TriesSweep) /\ WF_vars(Clock)

\* SpecEditorSet: get_editors_info as a function of the editor assignments
\* and decision drafts of an article that has no RQCCall row.
InputEditors == {"e1", "e2", "e3"}
SeqsUpTo(S, n) == UNION {[1..k -> S] : k \in 0..n}
NoDuplicateEditor(s) ==
    \A i, k \in 1..Len(s) : i # k => s[i].editor # s[k].editor

InputAssignments ==
    {s \in SeqsUpTo([editor : InputEditors, editor_type : EditorTypes],
                    MaxInputAssignments) : NoDuplicateEditor(s)}
InputDrafts ==
    SeqsUpTo([section_editor : InputEditors \cup {None},
              editor : InputEditors \cup {None}], MaxInputDrafts)

InitEditorSet ==
    /\ credentials = {}
    /\ \E s \in InputAssignments :
          editorAssignments = [a \in Articles |-> IF a = "a1" THEN s ELSE <<>>]
    /\ \E s \in InputDrafts :
          decisionDrafts = [a \in Articles |-> IF a = "a1" THEN s ELSE <<>>]
    /\ callRecords = {}
    /\ delayedCalls = {}
    /\ nextId = 1
    /\ remoteUp = FALSE
    /\ sent = {}
    /\ owed = {}
    /\ inflight = {}
    /\ reviewAssignments = InitialReviewAssignments
    /\ optingDecisions = {}
    /\ optingSnapshots = {}
    /\ journalSalts = {}
    /\ lastOp = Op("init", {})

\* get_editors_info(article) is evaluated.
Assemble ==
    /\ lastOp.op = "init"
    /\ lastOp' = Op("assemble",
                    {Delivery(0, "a1", 0, get_editors_info(callRecords, "a1"))})
    /\ UNCHANGED <<credentials, editorAssignments, decisionDrafts, callRecords,
                   delayedCalls, nextId, remoteUp, sent, owed, inflight,
                   reviewVars>>

SpecEditorSet == InitEditorSet /\ [][Assemble]_vars

\* SpecCut: get_editors_info for an article with up to MaxCutAssignments
\* editor assignments of different editors and no RQCCall row.  The section
\* editors are the first assigned, the last assigned, or every second one;
\* there is no decision draft, or one naming two of the editors.
MaxCutAssignments == 22
CutEditor(i) == "e" \o ToString(i)
CutPatterns == {"oldest", "newest", "alternating"}

IsCutSectionEditor(i, n, k, pattern) ==
    CASE pattern = "oldest" -> i <= k
      [] pattern = "newest" -> i > n - k
      [] OTHER -> i % 2 = 0 /\ i <= 2 * k

CutList(n, k, pattern) ==
    [i \in 1..n |-> [editor |-> CutEditor(i),
                     editor_type |-> IF IsCutSectionEditor(i, n, k, pattern)
                                     THEN "section-editor" ELSE "editor"]]
CutAssignments ==
    UNION {{CutList(n, k, pattern) : k \in 0..n, pattern \in CutPatterns}
              : n \in 0..MaxCutAssignments}
CutDrafts ==
    {<<>>, <<[section_editor |-> CutEditor(2), editor |-> CutEditor(1)]>>,
     <<[section_editor |-> None, editor |-> CutEditor(0)]>>}

InitCut ==
    /\ credentials = {}
    /\ \E s \in CutAssignments :
          editorAssignments = [a \in Articles |-> IF a = "a1" THEN s ELSE <<>>]
    /\ \E s \in CutDrafts :
          decisionDrafts = [a \in Articles |-> IF a = "a1" THEN s ELSE <<>>]
    /\ callRecords = {}
    /\ delayedCalls = {}
    /\ nextId = 1
    /\ remoteUp = FALSE
    /\ sent = {}
    /\ owed = {}
    /\ inflight = {}
    /\ reviewAssignments = InitialReviewAssignments
    /\ optingDecisions = {}
    /\ optingSnapshots = {}
    /\ journalSalts = {}
    /\ lastOp = Op("init", {})

SpecCut == InitCut /\ [][Assemble]_vars

(***************************************************************************)
(* Claims                                                                  *)
(***************************************************************************)
\* str(code) of the codes the claims name.
Stringified(code) ==
    CASE code = 500 -> "500" [] code = 502 -> "502" [] code = 503 -> "503"
      [] code = 504 -> "504" [] OTHER -> ToString(code)

RetryCodes == {500, 502, 503, 504, CONNECTION_ERROR, TIMEOUT, REQUEST_ERROR}

\* C1: an explicit submission whose delivery fails with 500, 502, 503, 504,
\* CONNECTION_ERROR, TIMEOUT or REQUEST_ERROR creates exactly one new
\* DelayedCall, for that article, with remaining_tries = 10 and
\* failure_reason = str(status code).
C1_RetryableFailureEnqueues ==
    [][(lastOp'.op = "submit") =>
        \A x \in lastOp'.deliveries :
            x.code \in RetryCodes =>
                \E d \in delayedCalls' :
                    /\ \A old \in delayedCalls : old.id # d.id
                    /\ delayedCalls' = delayedCalls \cup {d}
                    /\ d.article = x.article
                    /\ d.remaining_tries = 10
                    /\ d.failure_reason = Stringified(x.code)]_vars

C1_Witness ==
    /\ lastOp.op = "submit"
    /\ \E x \in lastOp.deliveries :
          /\ x.code = TIMEOUT
          /\ \E d \in delayedCalls :
                /\ d.article = x.article
                /\ d.failure_reason = ToString(TIMEOUT)
                /\ d.id = nextId - 1
    /\ Cardinality(delayedCalls) = 2

\* C2: an explicit submission that succeeds, or fails with 400, 403, 404,
\* UNKNOWN_ERROR or any other non-retryable code, leaves the DelayedCall rows
\* unchanged.
C2_NonRetryableLeavesLedger ==
    [][(lastOp'.op = "submit") =>
        \A x \in lastOp'.deliveries :
            x.code \in (StatusCodes \ RetryCodes) => delayedCalls' = delayedCalls]_vars

C2_Witness ==
    /\ lastOp.op = "submit"
    /\ \E x \in lastOp.deliveries : x.code = 403
    /\ delayedCalls # {}

\* A due item: its last attempt is at least 24 hours old.
IsDue(d) == d.since_last_attempt >= 24

Rows(calls, id) == {d \in calls : d.id = id}

\* C4: in a sweep a due item with remaining_tries = n > 0 whose redelivery
\* fails is kept with remaining_tries = n - 1 and a fresh last-attempt time.
C4_FailedRetryDecrements ==
    [][(lastOp'.op = "sweep") =>
        \A d \in delayedCalls :
            (/\ IsDue(d)
             /\ d.remaining_tries > 0
             /\ \E x \in lastOp'.deliveries : x.id = d.id /\ ~Success(x.code))
            => Rows(delayedCalls', d.id) =
                 {[d EXCEPT !.remaining_tries = d.remaining_tries - 1,
                            !.since_last_attempt = 0]}]_vars

C4_Witness ==
    /\ lastOp.op = "sweep"
    /\ \E x \in lastOp.deliveries :
          /\ ~Success(x.code)
          /\ x.remaining_tries = 5
          /\ \E d \in delayedCalls : d.id = x.id /\ d.remaining_tries = 4

\* C5: in a sweep a due item with remaining_tries = 0 is deleted and no
\* delivery is attempted for it.
C5_ExhaustedDeletedSilently ==
    [][(lastOp'.op = "sweep") =>
        \A d \in delayedCalls :
            (IsDue(d) /\ d.remaining_tries = 0)
            => /\ Rows(delayedCalls', d.id) = {}
               /\ \A x \in lastOp'.deliveries : x.id # d.id]_vars

C5_Witness ==
    /\ lastOp.op = "sweep"
    /\ lastOp.dropped # {}
    /\ lastOp.deliveries = {}

\* C6: in a sweep a due item with remaining_tries > 0 whose redelivery
\* succeeds is deleted.
C6_SuccessfulRetryDeletes ==
    [][(lastOp'.op = "sweep") =>
        \A d \in delayedCalls :
            (/\ IsDue(d)
             /\ d.remaining_tries > 0
             /\ \E x \in lastOp'.deliveries : x.id = d.id /\ Success(x.code))
            => Rows(delayedCalls', d.id) = {}]_vars

C6_Witness ==
    /\ lastOp.op = "sweep"
    /\ \E x \in lastOp.deliveries :
          /\ Success(x.code)
          /\ x.remaining_tries = 1
          /\ Rows(delayedCalls, x.id) = {}

\* C7: a sweep skips every item whose last attempt is less than 24 hours
\* old: no delivery for it, and the row is unchanged, whatever its
\* remaining_tries (0 included).
C7_RecentItemsSkipped ==
    [][(lastOp'.op = "sweep") =>
        \A d \in delayedCalls :
            ~IsDue(d) => /\ d \in delayedCalls'
                         /\ Rows(delayedCalls', d.id) = {d}
                         /\ \A x \in lastOp'.deliveries : x.id # d.id
                         /\ d.id \notin lastOp'.dropped]_vars

C7_Witness ==
    /\ lastOp.op = "sweep"
    /\ lastOp.deliveries = {}
    /\ lastOp.dropped = {}
    /\ \E d \in delayedCalls :
          /\ d.remaining_tries = 0
          /\ d.since_last_attempt > 0
          /\ d.since_last_attempt < 24

\* C8: once an RQCCall row exists for an article, every payload assembled
\* for the article carries the stored editor list, and the row stays as it
\* is, whatever happened to the editor assignments and decision drafts.
C8_StoredEditorListReturned ==
    [][\A c \in callRecords :
          /\ c \in callRecords'
          /\ \A x \in lastOp'.deliveries :
                x.article = c.article => x.edassgmt_set = c.editor_assignments]_vars

C8_Witness ==
    /\ lastOp.op = "submit"
    /\ \E x \in lastOp.deliveries, c \in callRecords :
          /\ c.article = x.article
          /\ x.edassgmt_set = c.editor_assignments
          /\ c.editor_assignments # <<>>
          /\ ComputeEditors(editorAssignments[x.article], decisionDrafts[x.article])
                \notin {c.editor_assignments, <<>>}

LevelOnes(s) == {i \in 1..Len(s) : s[i].level = 1}

\* The editor set the last assembly returned.
Assembled == {x.edassgmt_set : x \in lastOp.deliveries}

\* A section editor is assigned or named on a decision draft.
HasSectionEditor(a) ==
    \/ \E i \in 1..Len(editorAssignments[a]) :
          editorAssignments[a][i].editor_type # "editor"
    \/ \E i \in 1..Len(decisionDrafts[a]) : decisionDrafts[a][i].section_editor # None

\* C10 as stated: a non-empty editor set computed from scratch holds exactly
\* one level-1 entry.
C10_ExactlyOneLevelOne ==
    (lastOp.op = "assemble") =>
        \A s \in Assembled : s # <<>> => Cardinality(LevelOnes(s)) = 1

\* C10 as amended: a non-empty editor set computed from scratch holds at
\* least one level-1 entry, placed first; it holds exactly one when no section
\* editor is assigned or named on a draft (the promotion of the first entry).
C10_AtLeastOneLevelOne ==
    (lastOp.op = "assemble") =>
        \A s \in Assembled :
            s # <<>> =>
                /\ s[1].level = 1
                /\ ~HasSectionEditor("a1") => Cardinality(LevelOnes(s)) = 1

C10_Witness ==
    /\ lastOp.op = "assemble"
    /\ ~HasSectionEditor("a1")
    /\ \E s \in Assembled :
          /\ Len(s) = 3
          /\ Cardinality(LevelOnes(s)) = 1

\* C3: once the remote endpoint accepts every delivery, each article whose
\* explicit submission failed with a retryable outcome is eventually
\* delivered by the sweep.
C3_EventuallyDelivered ==
    \A a \in LiveArticles : (a \in owed /\ remoteUp) ~> (a \notin owed)

\* C3 (amended): ... provided a DelayedCall of the article still has tries
\* left when the remote endpoint starts to accept deliveries.
C3_EventuallyDeliveredWhileTriesRemain ==
    \A a \in LiveArticles :
        (/\ a \in owed
         /\ remoteUp
         /\ \E d \in delayedCalls : d.article = a /\ d.remaining_tries > 0)
           ~> (a \notin owed)

C3_Witness ==
    /\ lastOp.op = "sweep"
    /\ remoteUp
    /\ \E x \in lastOp.deliveries :
          /\ x.id # 0
          /\ Success(x.code)
          /\ x.remaining_tries < INITIAL_TRIES
          /\ x.article \notin owed
          /\ \A d \in delayedCalls : d.id # x.id

\* C9: two first submissions of an article that overlap, with a change of
\* its editors in between, do not diverge: at most one RQCCall row per
\* article, and every payload the remote accepted carries the stored list.
C9_OneCallRecordPerArticle ==
    \A c1, c2 \in callRecords : c1.article = c2.article => c1 = c2

C9_NoDivergence ==
    /\ C9_OneCallRecordPerArticle
    /\ \A x \in sent, c \in callRecords :
          x.article = c.article => x.edassgmt_set = c.editor_assignments

\* C11: the editor set computed from scratch never holds two entries with
\* the same (email, level), also after the promotion; an editor who is the
\* assigned chief editor and the editor of several decision drafts (and is
\* no section editor) appears exactly once.
EntriesOf(s, e) == {i \in 1..Len(s) : s[i].email = e}

ChiefWithSeveralDrafts(e) ==
    /\ \E i \in 1..Len(editorAssignments["a1"]) :
          editorAssignments["a1"][i] = [editor |-> e, editor_type |-> "editor"]
    /\ Cardinality({i \in 1..Len(decisionDrafts["a1"]) :
                      decisionDrafts["a1"][i].editor = e}) >= 2
    /\ \A i \in 1..Len(decisionDrafts["a1"]) :
          decisionDrafts["a1"][i].section_editor # e

ReviewEntries ==
    {[ra |-> lastOp.selection[i], data |-> lastOp.document.review_set[i]] :
        i \in 1..Len(lastOp.document.review_set)}

\* The reviewer of the assignment has a valid consent record: a decision for
\* the journal, opt-in, not older than the window.
ValidOptIn(ra) ==
    LET reviewer == ReviewAssignmentOf[ra].reviewer
        journal == ArticleJournal[ReviewAssignmentOf[ra].article]
    IN /\ ValidDecision(optingDecisions, reviewer, journal)
       /\ DecisionOf(optingDecisions, reviewer, journal).opting_status = OPT_IN

\* The snapshot of the assignment says opt-in.
SnapshotOptIn(ra) ==
    \E x \in optingSnapshots : x.review_assignment = ra /\ x.opting_status = OPT_IN

Anonymized(e) ==
    LET account == ReviewerAccount[ReviewAssignmentOf[e.ra].reviewer]
        journal == ArticleJournal[ReviewAssignmentOf[e.ra].article]
    IN /\ e.data.text = EmptyStr
       /\ e.data.reviewer.firstname = EmptyStr
       /\ e.data.reviewer.lastname = EmptyStr
       /\ e.data.reviewer.orcid_id = NullStr
       /\ e.data.reviewer.email # account.email
       /\ \E x \in journalSalts :
             /\ x.journal = journal
             /\ e.data.reviewer.email = create_pseudo_address(account.email, x.salt)

\* Real email and name; the text is a non-empty prefix of the joined answers.
Identified(e) ==
    LET account == ReviewerAccount[ReviewAssignmentOf[e.ra].reviewer]
        review_text == Join(ReviewAssignmentOf[e.ra].answers)
    IN /\ e.data.reviewer.email = account.email
       /\ e.data.reviewer.firstname = account.first_name
       /\ e.data.reviewer.lastname = account.last_name
       /\ e.data.text.of = review_text.of
       /\ e.data.text.len <= review_text.len
       /\ e.data.text.len > 0

\* C12 as stated: every entry whose reviewer has no valid opt-in decision
\* (none, opt-out, or older than 180 days) is anonymized.
C12_AnonymizedWithoutValidConsent ==
    (lastOp.op = "submit") =>
        \A e \in ReviewEntries : ~ValidOptIn(e.ra) => Anonymized(e)

\* C12 (amended): every entry whose assignment snapshot does not say opt-in
\* has empty text, empty names, no ORCID and the pseudonymous address.
C12_AnonymizedWithoutOptInSnapshot ==
    (lastOp.op = "submit") =>
        \A e \in ReviewEntries : ~SnapshotOptIn(e.ra) => Anonymized(e)

C12_Witness ==
    /\ lastOp.op = "submit"
    /\ \E e1, e2 \in ReviewEntries :
          /\ ~SnapshotOptIn(e1.ra) /\ Anonymized(e1)
          /\ SnapshotOptIn(e2.ra) /\ ~Anonymized(e2)

\* C13 as stated: every entry whose reviewer has a valid opt-in decision for
\* the journal carries the real email and name and the review text.
C13_IdentifiedWithValidConsent ==
    (lastOp.op = "submit") =>
        \A e \in ReviewEntries : ValidOptIn(e.ra) => Identified(e)

\* C13 (amended): every entry whose assignment snapshot says opt-in carries
\* the reviewer's real email and name and the review text up to truncation.
C13_IdentifiedWithOptInSnapshot ==
    (lastOp.op = "submit") =>
        \A e \in ReviewEntries : SnapshotOptIn(e.ra) => Identified(e)

C13_Witness ==
    /\ lastOp.op = "submit"
    /\ \E e \in ReviewEntries :
          /\ SnapshotOptIn(e.ra)
          /\ ~ValidOptIn(e.ra)
          /\ Identified(e)
          /\ e.data.reviewer.orcid_id = ReviewerAccount["r1"].orcid

\* The snapshot is frozen: already sent, or its assignment complete or declined.
Frozen(x) ==
    \/ x.sent_to_rqc
    \/ reviewAssignments[x.review_assignment].is_complete
    \/ reviewAssignments[x.review_assignment].date_declined

\* The last operation was a consent submission that the handler accepted
\* (POST, valid form, assignment found) for assignment ra with the choice
\* status.
Recorded(ra, status) ==
    /\ lastOp.op = "opting"
    /\ lastOp.target = ra
    /\ lastOp.request.method = "POST"
    /\ lastOp.request.form_valid
    /\ lastOp.request.status = status
    /\ lastOp.document = "do_review"

\* The reviewer's decision for the journal of assignment ra says status and
\* was recorded just now.
DecisionSays(ra, status) ==
    \E d \in optingDecisions :
        /\ d.reviewer = ReviewAssignmentOf[ra].reviewer
        /\ d.journal = ArticleJournal[ReviewAssignmentOf[ra].article]
        /\ d.opting_status = status
        /\ d.age = 0

\* C14: a consent submission leaves every frozen snapshot (sent, or of a
\* complete or declined assignment) as it was: same opting status, same
\* linked decision record.
C14_FrozenSnapshotUnchanged ==
    [][(lastOp'.op = "opting") =>
          \A x \in optingSnapshots : Frozen(x) => x \in optingSnapshots']_vars

\* A submission for the declined assignment ra1 was accepted and changed the
\* decision of the reviewer, and the snapshot of ra1 still says otherwise.
C14_Witness ==
    /\ Recorded("ra1", OPT_IN)
    /\ reviewAssignments["ra1"].date_declined
    /\ DecisionSays("ra1", OPT_IN)
    /\ \E x \in optingSnapshots :
          /\ x.review_assignment = "ra1"
          /\ x.opting_status # OPT_IN
          /\ x.decision_record = <<>>

\* A POST with a valid form arrived for an assignment in one of the three
\* frozen conditions.
FrozenAssignment(ra) ==
    \/ reviewAssignments[ra].is_complete
    \/ reviewAssignments[ra].date_declined
    \/ \E x \in optingSnapshots : x.review_assignment = ra /\ x.sent_to_rqc

\* The request comes from the reviewer of the assignment: own session, or
\* the access code of the assignment.
FromReviewer(request, ra) ==
    IF request.access_code # None
    THEN request.access_code = ReviewAssignmentOf[ra].access_code
    ELSE request.user = ReviewAssignmentOf[ra].reviewer

UnfrozenSnapshot(x) ==
    /\ ~x.sent_to_rqc
    /\ reviewAssignments[x.review_assignment].date_accepted # None
    /\ ~reviewAssignments[x.review_assignment].is_complete
    /\ ~reviewAssignments[x.review_assignment].date_declined

\* The step is a POST of a valid form by the reviewer of assignment ra.
ValidSubmission(ra) ==
    /\ lastOp'.op = "opting"
    /\ lastOp'.target = ra
    /\ lastOp'.request.method = "POST"
    /\ lastOp'.request.form_valid
    /\ FromReviewer(lastOp'.request, ra)

\* After the step the snapshot x says the submitted choice and is linked to
\* the decision of the reviewer, which says the same.
SnapshotFollows(x, ra) ==
    /\ [x EXCEPT !.opting_status = lastOp'.request.status,
                 !.decision_record = <<ReviewAssignmentOf[ra].reviewer,
                                       lastOp'.request.journal>>]
          \in optingSnapshots'
    /\ \E d \in optingDecisions' :
          /\ d.reviewer = ReviewAssignmentOf[ra].reviewer
          /\ d.journal = lastOp'.request.journal
          /\ d.opting_status = lastOp'.request.status
    /\ \A y \in optingSnapshots' :
          y.review_assignment = ra => y.opting_status = lastOp'.request.status

\* C16: a valid consent submission for an assignment whose snapshot is
\* unfrozen sets the snapshot's opting status to the submitted choice and
\* links it to the updated decision record.
C16_UnfrozenSnapshotUpdated ==
    [][\A ra \in ReviewAssignmentIds :
          ValidSubmission(ra) =>
             \A x \in optingSnapshots :
                (x.review_assignment = ra /\ UnfrozenSnapshot(x))
                => SnapshotFollows(x, ra)]_vars

\* C16 restricted to assignments accepted in the current calendar year:
\* there the snapshot does follow the submission.
C16_UpdatedWhenAcceptedThisYear ==
    [][\A ra \in ReviewAssignmentIds :
          ValidSubmission(ra) =>
             \A x \in optingSnapshots :
                (/\ x.review_assignment = ra
                 /\ UnfrozenSnapshot(x)
                 /\ reviewAssignments[ra].date_accepted = "this_year")
                => SnapshotFollows(x, ra)]_vars


\* C17: the review text of an opted-in reviewer is the joined answers cut
\* to 200,000 characters: a text of length n appears with length
\* min(n, 200000).
C17_ReviewTextCutAtMultiLineLength ==
    (lastOp.op = "submit") =>
        \A e \in ReviewEntries :
            SnapshotOptIn(e.ra) =>
                LET review_text == Join(ReviewAssignmentOf[e.ra].answers) IN
                /\ e.data.text.of = review_text.of
                /\ e.data.text.len =
                      IF review_text.len <= MAX_MULTI_LINE_STRING_LENGTH
                      THEN review_text.len
                      ELSE MAX_MULTI_LINE_STRING_LENGTH

\* What the code does instead: the text is cut like a single-line string.
C17_ReviewTextCutAtSingleLineLength ==
    (lastOp.op = "submit") =>
        \A e \in ReviewEntries :
            SnapshotOptIn(e.ra) =>
                LET review_text == Join(ReviewAssignmentOf[e.ra].answers) IN
                /\ e.data.text.of = review_text.of
                /\ e.data.text.len =
                      IF review_text.len <= MAX_SINGLE_LINE_STRING_LENGTH
                      THEN review_text.len
                      ELSE MAX_SINGLE_LINE_STRING_LENGTH


\* The input names an acting user who has a non-empty email.
ActingUserWithEmail(input) ==
    /\ input.user \notin {NoUser, AnonymousUser}
    /\ input.user.email \notin {NullStr, EmptyStr}

\* C18: the document carries the acting user's email and the provided
\* redirect target only when the interactive flag is set and an acting user
\* with a non-empty email is present; otherwise both fields are empty
\* strings, and so they are in every document of an implicit call.
C18_InteractiveFieldsOnlyWithUser ==
    (lastOp.op \in {"fetch", "implicit"}) =>
        LET input == lastOp.request
            document == lastOp.document
        IN /\ IF input.is_interactive /\ ActingUserWithEmail(input)
              THEN /\ document.interactive_user = input.user.email
                   /\ document.mhs_submissionpage = input.mhs_submissionpage
              ELSE /\ document.interactive_user = EmptyStr
                   /\ document.mhs_submissionpage = EmptyStr
           /\ (lastOp.op = "implicit") => document.mhs_submissionpage = EmptyStr

\* A redirect target was provided with the interactive flag set, but the
\* acting user has an empty email: the document carries neither.
C18_Witness ==
    /\ lastOp.op = "fetch"
    /\ lastOp.request.is_interactive
    /\ lastOp.request.user = Account(EmptyStr)
    /\ lastOp.request.mhs_submissionpage = Str("https://journal/referer", 23)
    /\ lastOp.document.interactive_user = EmptyStr
    /\ lastOp.document.mhs_submissionpage = EmptyStr


\* The pairs of the submissions that pass validation, by journal.
AcceptedPairs ==
    {[journal |-> "j1", rqc_journal_id |-> 6, api_key |-> <<"a", "b", "c">>],
     [journal |-> "j1", rqc_journal_id |-> 9, api_key |-> <<"t", "e", "s", "t">>],
     [journal |-> "j2", rqc_journal_id |-> 17, api_key |-> <<"k", "e", "y">>]}

\* C19: whatever the interleaving of the settings requests, a journal has at
\* most one credentials row, and every row holds the identifier and the key
\* of one and the same accepted submission for its journal.
C19_OneConsistentPair ==
    /\ \A j \in Journals : Cardinality({c \in credentials : c.journal = j}) <= 1
    /\ credentials \subseteq AcceptedPairs

\* Both workers found no row; the first created it, the second met it and
\* saved its own pair over it.
C19_Witness ==
    /\ lastOp.op = "save"
    /\ lastOp.conflict
    /\ inflight = {}
    /\ credentials =
          {[journal |-> "j1", rqc_journal_id |-> 9, api_key |-> <<"t", "e", "s", "t">>]}

\* The fields of the request fail local validation: one is missing, the
\* identifier is no number, or the key is not alphanumeric.
FailsLocalValidation(request) ==
    \/ request.journal_id_field \in {<<>>, <<"t", "e", "s", "t">>}
    \/ request.journal_api_key_field \in {<<>>, <<"@", "t", "e", "s", "t", "?">>}

\* C20: a settings request whose fields fail local validation makes no call
\* to the remote credential check and leaves the stored credentials as they
\* were.
C20_InvalidFormNoCheckNoChange ==
    [][(/\ lastOp'.op = "settings"
        /\ lastOp'.request.method = "POST"
        /\ FailsLocalValidation(lastOp'.request))
       => /\ lastOp'.checks = <<>>
          /\ credentials' = credentials
          /\ lastOp'.response = "render rqc_adapter/manager.html"]_vars

\* Journal j1 has credentials and the form arrives with a key that is not
\* alphanumeric: the form is shown again, no check was made.
C20_Witness ==
    /\ lastOp.op = "settings"
    /\ lastOp.request.user = "editor"
    /\ lastOp.request.journal = "j1"
    /\ lastOp.request.journal_api_key_field = <<"@", "t", "e", "s", "t", "?">>
    /\ lastOp.checks = <<>>
    /\ lastOp.response = "render rqc_adapter/manager.html"
    /\ \E c \in credentials : c.journal = "j1" /\ c.rqc_journal_id = 9


\* C21: a journal never has more than one salt row, a stored salt is never
\* replaced, and every anonymization, first or later, racing or not, sends
\* the address made with the salt stored for its journal.
C21_OneSaltPerJournal ==
    [][/\ \A j \in Journals :
             Cardinality({x \in journalSalts' : x.journal = j}) <= 1
       /\ journalSalts \subseteq journalSalts'
       /\ (lastOp'.op = "anonymized") =>
             \E x \in journalSalts' :
                /\ x.journal = lastOp'.journal
                /\ lastOp'.email =
                      create_pseudo_address(ReviewerAccount["r1"].email, x.salt)]_vars

\* Both workers found no salt for j1 and generated one each; the first
\* stored s1, and the second, whose own salt is s2, sent the address made
\* with s1.
C21_Witness ==
    /\ lastOp.op = "anonymized"
    /\ lastOp.path = "read back"
    /\ lastOp.proc = "w2"
    /\ lastOp.journal = "j1"
    /\ lastOp.fresh = "s2"
    /\ journalSalts = {[journal |-> "j1", salt |-> "s1"]}
    /\ inflight = {}
    /\ lastOp.email = create_pseudo_address(ReviewerAccount["r1"].email, "s1")

\* The deliveries of the last operation for the article that the remote
\* endpoint accepted, and those it did not.
Successes(a) == {x \in lastOp.deliveries : x.article = a /\ Success(x.code)}
Failures(a) == {x \in lastOp.deliveries : x.article = a /\ ~Success(x.code)}

\* C22: an article has a CallRecord exactly when a payload for it was
\* delivered successfully (explicitly, by a workflow event or by the sweep),
\* and the record holds the editor list of the first such payload: every
\* accepted payload of the article carries the stored list.
C22_CallRecordIffDelivered ==
    \A a \in Articles :
        /\ RQCCall_exists(callRecords, a) <=> (\E x \in sent : x.article = a)
        /\ Cardinality({c \in callRecords : c.article = a}) <= 1
        /\ \A c \in callRecords, x \in sent :
              (c.article = a /\ x.article = a)
              => c.editor_assignments = x.edassgmt_set

\* A delivery failed, then the editors changed, then the sweep delivered
\* the payload: the record holds the list the sweep sent.
C22_Witness ==
    /\ lastOp.op = "sweep"
    /\ Successes("a1") # {}
    /\ \E c \in callRecords :
          /\ c.article = "a1"
          /\ Len(c.editor_assignments) > 0
          /\ \A x \in Successes("a1") : x.edassgmt_set = c.editor_assignments


\* The reviewer of ra has a decision for the journal of ra, within the window.
CurrentDecisions(ra) ==
    {d \in optingDecisions :
        /\ d.reviewer = ReviewAssignmentOf[ra].reviewer
        /\ d.journal = ArticleJournal[ReviewAssignmentOf[ra].article]
        /\ d.age <= OPTING_WINDOW_DAYS}
AnyDecisions(ra) ==
    {d \in optingDecisions :
        /\ d.reviewer = ReviewAssignmentOf[ra].reviewer
        /\ d.journal = ArticleJournal[ReviewAssignmentOf[ra].article]}

\* The step is the acceptance of the review request ra.
Accepts(ra) ==
    /\ reviewAssignments[ra].date_accepted = None
    /\ reviewAssignments'[ra].date_accepted # None

ConsentGiven(ra, journal) ==
    \E d \in optingDecisions :
        /\ d.reviewer = ReviewAssignmentOf[ra].reviewer
        /\ d.journal = journal
        /\ d.age <= 180

\* C24: the consent form is shown exactly when the journal of the site has
\* credentials and the reviewer's consent for this journal is absent, that
\* is, there is no decision record of the reviewer for this journal or the
\* record is older than 180 days; a decision for another journal does not
\* count.
C24_FormShownIffConsentAbsent ==
    lastOp.op = "render" =>
       ((lastOp.document = "reviewer_opting_form.html")
          <=> /\ \E c \in credentials : c.journal = lastOp.request.journal
              /\ ~ConsentGiven(lastOp.target, lastOp.request.journal))

\* The form is shown at the site of j1 although the reviewer has a fresh
\* decision for j2 and a decision for j1 that is too old.
C24_Witness ==
    /\ lastOp.op = "render"
    /\ lastOp.request.journal = "j1"
    /\ lastOp.document = "reviewer_opting_form.html"
    /\ \E d \in optingDecisions :
          d.reviewer = "r1" /\ d.journal = "j2" /\ d.age = 0
    /\ \E d \in optingDecisions :
          d.reviewer = "r1" /\ d.journal = "j1" /\ d.age > 180


\* The review assignments of the article that belong in its review set: the
\* request was accepted, or it was declined and its snapshot is marked as
\* sent; and its review round exists or its snapshot is marked as sent.
Marked(ra) ==
    \E x \in optingSnapshots : x.review_assignment = ra /\ x.sent_to_rqc
ReviewsDue(article) ==
    {ra \in ReviewAssignmentIds :
        /\ ReviewAssignmentOf[ra].article = article
        /\ \/ reviewAssignments[ra].date_accepted # None
           \/ reviewAssignments[ra].date_declined /\ Marked(ra)
        /\ reviewAssignments[ra].review_round \/ Marked(ra)}

C26_DeletedRoundOnlyIfDelivered ==
    [][lastOp'.op = "submit" =>
          \A i \in 1..Len(lastOp'.review_set) :
             \A ra \in ReviewAssignmentIds :
                (/\ ReviewAssignmentOf[ra].date_requested = lastOp'.review_set[i].invited
                 /\ ~reviewAssignments[ra].review_round)
                => \E x \in sent : lastOp'.review_set[i].invited \in x]_vars


\* The ledger has a row with this id.
Pending(id) == \E d \in delayedCalls : d.id = id

\* C27: when the sweep runs again and again and a row is retried only once
\* 24 hours have passed since its last attempt, every row of the ledger is
\* eventually deleted; the sweep attempts at most 10 deliveries for it; its
\* remaining_tries is always within 0..10 and never increases.
C27_RowsEndWithinTenAttempts ==
    /\ \A id \in 1..MaxLiveCalls : Pending(id) ~> ~Pending(id)
    /\ [](\A e \in sent : e.attempts <= 10)
    /\ [](\A d \in delayedCalls : d.remaining_tries \in 0..10)
    /\ [][\A d \in delayedCalls, e \in delayedCalls' :
             d.id = e.id => e.remaining_tries <= d.remaining_tries]_vars

\* The row was retried ten times without success and is deleted.
C27_Witness ==
    /\ lastOp.op = "sweep"
    /\ \E e \in sent :
          /\ e.attempts = 10
          /\ \A d \in delayedCalls : d.id # e.id


\* The responses that are redirects.
Redirects == {"core_dashboard", "referer_or_core_dashboard", "do_review"}

\* C28: every request to set_reviewer_opting_status is answered with a
\* redirect, whether the form is valid or not, the assignment found or not,
\* the method POST or not; and when the form is valid but the assignment is
\* complete or not the one of the access code or of the user, no decision
\* and no snapshot is made or changed.
C28_AlwaysRedirects ==
    [][lastOp'.op = "opting" =>
          /\ lastOp'.document \in Redirects
          /\ (/\ lastOp'.request.method = "POST"
              /\ lastOp'.request.form_valid
              /\ \/ ~FromReviewer(lastOp'.request, lastOp'.target)
                 \/ reviewAssignments[lastOp'.target].is_complete)
             => UNCHANGED <<optingDecisions, optingSnapshots>>]_vars

\* C28 without the invalid form: requests that are no POST or whose form is
\* valid are answered with a redirect, and those whose assignment is not
\* found change nothing.
C28_RedirectsUnlessFormInvalid ==
    [][(/\ lastOp'.op = "opting"
        /\ lastOp'.request.method = "POST" => lastOp'.request.form_valid) =>
          /\ lastOp'.document \in Redirects
          /\ (/\ lastOp'.request.method = "POST"
              /\ \/ ~FromReviewer(lastOp'.request, lastOp'.target)
                 \/ reviewAssignments[lastOp'.target].is_complete)
             => UNCHANGED <<optingDecisions, optingSnapshots>>]_vars


\* The (email, level) pairs the article's editor assignments and decision
\* drafts give rise to.
CollectedKeys ==
    {<<editorAssignments["a1"][i].editor,
       IF editorAssignments["a1"][i].editor_type = "editor" THEN 3 ELSE 1>>
        : i \in 1..Len(editorAssignments["a1"])}
    \cup {<<decisionDrafts["a1"][i].section_editor, 1>>
             : i \in {k \in 1..Len(decisionDrafts["a1"]) :
                         decisionDrafts["a1"][k].section_editor # None}}
    \cup {<<decisionDrafts["a1"][i].editor, 3>>
             : i \in {k \in 1..Len(decisionDrafts["a1"]) :
                         decisionDrafts["a1"][k].editor # None}}

KeptIn(s, key) == \E i \in 1..Len(s) : s[i].email = key[1] /\ s[i].level = key[2]

\* C29: the editor set computed from scratch has at most 20 entries in
\* ascending order of level; an entry is left out only when 20 entries of
\* the same or a lower level are kept, so no level-1 entry is left out
\* while an entry of a higher level is kept.  (Where no section editor is
\* named one entry is promoted to level 1; there the set holds the
\* promoted entry first and 20 entries or all.)
C29_SortedBeforeCut ==
    (lastOp.op = "assemble") =>
       \A s \in Assembled :
          /\ Len(s) <= 20
          /\ \A i, k \in 1..Len(s) : i < k => s[i].level <= s[k].level
          /\ Len(s) = Min(Cardinality(CollectedKeys), 20)
          /\ IF \E key \in CollectedKeys : key[2] = 1
             THEN \A key \in CollectedKeys :
                     ~KeptIn(s, key) =>
                        /\ Cardinality({i \in 1..Len(s) : s[i].level <= key[2]}) = 20
                        /\ key[2] = 1 => \A i \in 1..Len(s) : s[i].level = 1
             ELSE s # <<>> => s[1].level = 1

\* 23 entries were collected, the two section editors last; both are kept,
\* in front, and three level-3 entries are left out.
C29_Witness ==
    /\ lastOp.op = "assemble"
    /\ Cardinality(CollectedKeys) = 23
    /\ editorAssignments["a1"][1].editor_type = "section-editor"
    /\ editorAssignments["a1"][2].editor_type = "section-editor"
    /\ editorAssignments["a1"][22].editor_type = "editor"
    /\ \E s \in Assembled :
          /\ Len(s) = 20
          /\ s[1].level = 1
          /\ s[2].level = 1
          /\ s[3].level = 3


\* C30: an explicit submission adds at most one row to the ledger and
\* changes or removes none; when its delivery fails with a retryable
\* outcome it adds exactly one row, for the submitted article, also when
\* rows for this article are already pending.
C30_OneNewRowPerFailure ==
    [][(lastOp'.op = "submit") =>
          LET added == delayedCalls' \ delayedCalls IN
          /\ delayedCalls \subseteq delayedCalls'
          /\ Cardinality(added) <= 1
          /\ \A x \in lastOp'.deliveries :
                x.code \in {500, 502, 503, 504, CONNECTION_ERROR, TIMEOUT, REQUEST_ERROR}
                => /\ Cardinality(added) = 1
                   /\ \A d \in added : d.article = x.article
          /\ (\A x \in lastOp'.deliveries : x.code \in {200, 303, 400, 403, 404})
                => added = {}]_vars

\* Two rows of article a1 are pending, the second made by the submission
\* that just failed while the first was untouched.
C30_Witness ==
    /\ lastOp.op = "submit"
    /\ \E x \in lastOp.deliveries : x.code = 503
    /\ \E d1, d2 \in delayedCalls :
          /\ d1.id = 1
          /\ d2.id = 2
          /\ d1.article = "a1"
          /\ d2.article = "a1"
          /\ d1.failure_reason = ToString(500)
          /\ d2.failure_reason = ToString(503)
          /\ d1.remaining_tries = 10


====
